---- MODULE Spec2Model ----
(***************************************************************************)
(* Model of the mjdi Standard MIDI File codec: the VLQ codec (src/vlq.rs,  *)
(* Vlq::parse in src/chunk/track/chunk.rs), the header chunk codec         *)
(* (src/chunk/header/*.rs, and the earlier revision src/chunk/header.rs),  *)
(* the backed enums (src/macros.rs) and the track chunk codec              *)
(* (src/chunk/track/chunk.rs), whose decode loop is followed pass by pass. *)
(*                                                                         *)
(* The codec is purely functional.  Each function of the source is an      *)
(* operator that computes what the code computes (loops are RECURSIVE      *)
(* operators, bit operations are arithmetic on bounded integers).  The     *)
(* state machine is a caller holding a typed value (val), a byte buffer    *)
(* (buf) and the result of the last call (res); each action is one call    *)
(* into the codec, and a behaviour is one chain of calls (encode, then     *)
(* decode what was encoded; or decode a buffer that was handed in).        *)
(***************************************************************************)
EXTENDS Integers, Sequences, FiniteSets, TLC

VARIABLES
    op,                 \* the codec function called last
    val,                \* the typed input in the caller's hand
    buf,                \* the byte buffer in the caller's hand
    suffix,             \* bytes the caller appended after the encoded value
    res,                \* what the last call returned
    debug_assertions,   \* build profile: TRUE = debug_assert! is compiled in
    events,             \* track decode: the events pushed so far
    unparsed,           \* track decode: the payload bytes not yet consumed (remainder)
    iterations          \* track decode: passes through the loop body so far

vars == <<op, val, buf, suffix, res, debug_assertions, events, unparsed, iterations>>

\* the state of the track decoder's loop
decoder == <<events, unparsed, iterations>>

(***************************************************************************)
(* Bounds of the model.                                                    *)
(***************************************************************************)
\* Inputs are drawn from the edges of each range: the EdgeWidth+1 smallest
\* and largest values of a 7-bit group (or a byte), plus fixed mid values.
EdgeWidth == 1
\* Longest suffix appended after an encoded VLQ.
MaxSuffixLen == 1

(***************************************************************************)
(* Results: Rust's Result<T, E>, plus a panic (failed assert!, failed      *)
(* index, unwrap of None).                                                 *)
(***************************************************************************)
Ok(v)    == [kind |-> "Ok", val |-> v]
Err(e)   == [kind |-> "Err", err |-> e]
Panic(m) == [kind |-> "Panic", msg |-> m]
NoResult == [kind |-> "None"]

(***************************************************************************)
(* u32.  The model checker's integers are 32-bit signed, so a u32 is held  *)
(* as its two 16-bit halves; a value below 2^31 converts to an integer.    *)
(***************************************************************************)
U32Of(i)   == [hi |-> i \div 65536, lo |-> i % 65536]
U32Int(n)  == n.hi * 65536 + n.lo
\* n > m, for a u32 n and an integer m < 2^31
U32Gt(n, m) == n.hi >= 32768 \/ U32Int(n) > m
\* (r << 7) on a u32 held as an integer: the top 7 bits fall off
Shl7(r)    == (r % 33554432) * 128

(***************************************************************************)
(* src/vlq.rs                                                              *)
(***************************************************************************)
MAX_REPRESENTABLE == 268435455

\* while n > 0x7F { bytes[size - 1] = (n & 0x7F) as u8 | 0x80; n >>= 7; size += 1; }
\* bytes is [u8; 4]: a store at index size - 1 >= 4 panics.
RECURSIVE try_from_loop(_, _, _)
try_from_loop(n, bytes, size) ==
    IF n > 127
    THEN IF size > 4
         THEN [panic |-> TRUE, n |-> n, bytes |-> bytes, size |-> size]
         ELSE try_from_loop(n \div 128,
                            [bytes EXCEPT ![size] = (n % 128) + 128],
                            size + 1)
    ELSE [panic |-> FALSE, n |-> n, bytes |-> bytes, size |-> size]

\* A faulty variant: the range check compares against i32::MAX instead of
\* MAX_REPRESENTABLE, so 5-group values reach the loop.
Vlq_try_from_LooseRangeCheck(n) ==
    IF n.hi >= 32768
    THEN Err("OverMaxSize")
    ELSE LET l == try_from_loop(U32Int(n), <<0, 0, 0, 0>>, 1) IN
         IF l.panic \/ l.size > 4
         THEN Panic("index out of bounds")
         ELSE LET b1 == [l.bytes EXCEPT ![l.size] = 128 + (l.n % 128)]
                  b2 == [b1 EXCEPT ![1] = b1[1] % 128]
              IN  Ok([bytes |-> b2, size |-> l.size])

\* A faulty variant: the continuation bit is cleared on the most significant group
\* (bytes[size - 1]) instead of the least significant one (bytes[0]).
Vlq_try_from_WrongFinalByte(n) ==
    IF U32Gt(n, MAX_REPRESENTABLE)
    THEN Err("OverMaxSize")
    ELSE LET l  == try_from_loop(U32Int(n), <<0, 0, 0, 0>>, 1)
             b1 == [l.bytes EXCEPT ![l.size] = l.n % 128]
         IN  Ok([bytes |-> b1, size |-> l.size])

\* impl TryFrom<u32> for Vlq.  bytes holds the groups least significant
\* first; bytes[0] ends with its top bit clear, the others with it set.
Vlq_try_from(n) ==
    IF U32Gt(n, MAX_REPRESENTABLE)
    THEN Err("OverMaxSize")
    ELSE LET l == try_from_loop(U32Int(n), <<0, 0, 0, 0>>, 1) IN
         IF l.panic \/ l.size > 4
         THEN Panic("index out of bounds")
         ELSE LET b1 == [l.bytes EXCEPT ![l.size] = 128 + (l.n % 128)]
                  b2 == [b1 EXCEPT ![1] = b1[1] % 128]
              IN  Ok([bytes |-> b2, size |-> l.size])

\* A faulty variant: the bytes are emitted in storage order (no reverse()).
Vlq_into_iter_NoReverse(v) == [i \in 1..v.size |-> v.bytes[i]]

\* impl IntoIterator for Vlq: bytes[0..size], reversed.
Vlq_into_iter(v) == [i \in 1..v.size |-> v.bytes[v.size + 1 - i]]

\* for byte in n { result <<= 7; result |= (byte & 0x7F) as u32; }
RECURSIVE u32_from_loop(_, _)
u32_from_loop(bytes, result) ==
    IF bytes = <<>>
    THEN result
    ELSE u32_from_loop(Tail(bytes), Shl7(result) + (Head(bytes) % 128))

\* A faulty variant: the shift is by 8, the width of a byte.
u32_from_Vlq_Shift8(v) ==
    LET RECURSIVE loop(_, _)
        loop(bytes, result) ==
            IF bytes = <<>>
            THEN result
            ELSE loop(Tail(bytes), ((result % 8388608) * 256) + (Head(bytes) % 128))
    IN  loop(Vlq_into_iter(v), 0)

\* impl From<Vlq> for u32
u32_from_Vlq(v) == u32_from_loop(Vlq_into_iter(v), 0)

\* Vlq::get
Vlq_get(v) == u32_from_Vlq(v)

\* A faulty variant: equality looks at the sizes only.
Vlq_eq_SizeOnly(a, b) == a.size = b.size
\* #[derive(PartialEq, Eq)] on struct Vlq { bytes, size }: field by field
Vlq_eq(a, b) == a.bytes = b.bytes /\ a.size = b.size

\* impl Ord for Vlq: u32::from(self).cmp(&u32::from(other))
Vlq_cmp(a, b) ==
    IF Vlq_get(a) < Vlq_get(b) THEN "Less"
    ELSE IF Vlq_get(a) = Vlq_get(b) THEN "Equal"
    ELSE "Greater"

(***************************************************************************)
(* src/chunk/track/chunk.rs: impl Parse for Vlq                            *)
(***************************************************************************)
\* loop { if remainder.is_empty() { return Err(NotEnoughBytes) }
\*        i += 1; result <<= 7; result += u32::from(remainder[0] & 0x7F);
\*        let should_continue = i < 4 && remainder[0] & 0x80 > 0;
\*        remainder = &remainder[1..];
\*        if !should_continue { break; } }
\* A faulty variant: the loop stops at the third byte, not the fourth.
RECURSIVE parse_loop_ThreeBytes(_, _, _)
parse_loop_ThreeBytes(remainder, result, i) ==
    IF remainder = <<>>
    THEN [ok |-> FALSE, result |-> result, remainder |-> remainder]
    ELSE LET i2     == i + 1
             r2     == Shl7(result) + (Head(remainder) % 128)
             should_continue == i2 < 3 /\ Head(remainder) >= 128
         IN  IF should_continue
             THEN parse_loop_ThreeBytes(Tail(remainder), r2, i2)
             ELSE [ok |-> TRUE, result |-> r2, remainder |-> Tail(remainder)]

RECURSIVE parse_loop(_, _, _)
parse_loop(remainder, result, i) ==
    IF remainder = <<>>
    THEN [ok |-> FALSE, result |-> result, remainder |-> remainder]
    ELSE LET i2     == i + 1
             r2     == Shl7(result) + (Head(remainder) % 128)
             should_continue == i2 < 4 /\ Head(remainder) >= 128
         IN  IF should_continue
             THEN parse_loop(Tail(remainder), r2, i2)
             ELSE [ok |-> TRUE, result |-> r2, remainder |-> Tail(remainder)]

\* A faulty variant: the continuation test reads the low bit mask (0x7F) instead of
\* the top bit, so a final byte with payload bits drags the next byte in.
Vlq_parse_WrongMask(bytes) ==
    LET RECURSIVE loop(_, _, _)
        loop(remainder, result, i) ==
            IF remainder = <<>>
            THEN [ok |-> FALSE, result |-> result, remainder |-> remainder]
            ELSE LET i2 == i + 1
                     r2 == Shl7(result) + (Head(remainder) % 128)
                     should_continue == i2 < 4 /\ (Head(remainder) % 128) > 0
                 IN  IF should_continue
                     THEN loop(Tail(remainder), r2, i2)
                     ELSE [ok |-> TRUE, result |-> r2, remainder |-> Tail(remainder)]
        p == loop(bytes, 0, 0)
    IN  IF ~p.ok
        THEN Err("NotEnoughBytes")
        ELSE LET v == Vlq_try_from(U32Of(p.result)) IN
             IF v.kind = "Ok"
             THEN Ok([vlq |-> v.val, remainder |-> p.remainder])
             ELSE v

Vlq_parse(bytes) ==
    IF bytes = <<>>
    THEN Err("NotEnoughBytes")
    ELSE LET p == parse_loop(bytes, 0, 0) IN
         IF ~p.ok
         THEN Err("NotEnoughBytes")
         ELSE LET v == Vlq_try_from(U32Of(p.result)) IN
              IF v.kind = "Ok"
              THEN Ok([vlq |-> v.val, remainder |-> p.remainder])
              ELSE v

(***************************************************************************)
(* Inputs of the VLQ codec.                                                *)
(***************************************************************************)
GroupSamples == (0..EdgeWidth) \cup {64} \cup ((127 - EdgeWidth)..127)

\* u32 values within the representable range: every combination of sampled
\* 7-bit groups (1 to 4 significant groups, zero groups in any position).
InRangeSamples ==
    { U32Of(g[1] * 2097152 + g[2] * 16384 + g[3] * 128 + g[4]) :
        g \in GroupSamples \X GroupSamples \X GroupSamples \X GroupSamples }

\* u32 values above MAX_REPRESENTABLE: just above it, at the top of u32, and
\* with each of the four excess bits set.
OverMaxSamples ==
    { [hi |-> h, lo |-> l] :
        h \in (4096..(4096 + EdgeWidth)) \cup ((65535 - EdgeWidth)..65535)
                \cup {8192, 16384, 32767, 32768},
        l \in {0, 127, 128, 65535} }

U32Samples == InRangeSamples \cup OverMaxSamples

SuffixBytes == {0, 127, 128, 255}

RECURSIVE SeqsUpTo(_, _)
SeqsUpTo(S, n) ==
    IF n = 0
    THEN {<<>>}
    ELSE LET shorter == SeqsUpTo(S, n - 1) IN
         shorter \cup { Append(s, b) : s \in shorter, b \in S }

Suffixes == SeqsUpTo(SuffixBytes, MaxSuffixLen) \ {<<>>}

(***************************************************************************)
(* The caller.                                                             *)
(***************************************************************************)
Init ==
    /\ op = "init"
    /\ val = U32Of(0)
    /\ buf = <<>>
    /\ suffix = <<>>
    /\ res = NoResult
    /\ debug_assertions \in BOOLEAN
    /\ events = <<>>
    /\ unparsed = <<>>
    /\ iterations = 0

\* Vlq::try_from(n)
VlqTryFrom ==
    /\ op = "init"
    /\ \E n \in U32Samples :
           /\ op' = "Vlq::try_from"
           /\ val' = n
           /\ res' = Vlq_try_from(n)
           /\ buf' = <<>>
           /\ suffix' = <<>>
           /\ UNCHANGED <<debug_assertions, decoder>>

\* u32::from(vlq) on the Vlq just made
VlqToU32 ==
    /\ op = "Vlq::try_from"
    /\ res.kind = "Ok"
    /\ op' = "u32::from"
    /\ res' = [kind |-> "u32", val |-> U32Of(u32_from_Vlq(res.val))]
    /\ UNCHANGED <<val, buf, suffix, debug_assertions, decoder>>

\* vlq.into_iter().collect::<Vec<u8>>() on the Vlq just made
VlqIntoIter ==
    /\ op = "Vlq::try_from"
    /\ res.kind = "Ok"
    /\ op' = "Vlq::into_iter"
    /\ buf' = Vlq_into_iter(res.val)
    /\ UNCHANGED <<val, suffix, res, debug_assertions, decoder>>

\* the caller writes more bytes after the encoded VLQ
StreamAppend ==
    /\ op = "Vlq::into_iter"
    /\ \E s \in Suffixes :
           /\ op' = "stream"
           /\ buf' = buf \o s
           /\ suffix' = s
           /\ UNCHANGED <<val, res, debug_assertions, decoder>>

\* Vlq::parse(&buf)
VlqParse ==
    /\ op \in {"Vlq::into_iter", "stream"}
    /\ op' = "Vlq::parse"
    /\ res' = Vlq_parse(buf)
    /\ UNCHANGED <<val, buf, suffix, debug_assertions, decoder>>

\* raw bytes in front of Vlq::parse: every sequence of sampled bytes up to
\* one byte more than the longest VLQ and its suffix
RawVlqBytes == {0, 1, 127, 128, 129, 255}
RawVlqBuffers == SeqsUpTo(RawVlqBytes, 4 + MaxSuffixLen)

\* the caller is handed raw bytes
VlqLoad ==
    /\ op = "init"
    /\ \E b \in RawVlqBuffers :
           /\ op' = "bytes"
           /\ buf' = b
           /\ UNCHANGED <<val, suffix, res, debug_assertions, decoder>>

\* Vlq::parse(&buf) on the raw bytes
VlqParseRaw ==
    /\ op = "bytes"
    /\ op' = "Vlq::parse(bytes)"
    /\ res' = Vlq_parse(buf)
    /\ UNCHANGED <<val, buf, suffix, debug_assertions, decoder>>

NextVlqParse == VlqLoad \/ VlqParseRaw

SpecVlqParse == Init /\ [][NextVlqParse]_vars

\* the Vlq values compared with the one just made: made by Vlq::try_from, or
\* by Vlq::parse from bytes that spell a value with leading zero groups
OtherVlqs ==
    { Vlq_try_from(U32Of(m)).val : m \in {0, 127, 128, 16384, MAX_REPRESENTABLE} }
    \cup { Vlq_parse(b).val.vlq :
             b \in {<<128, 0>>, <<128, 129, 0>>, <<128, 128, 128, 127>>} }

\* a == b and a.cmp(&b), for the Vlq a just made and another Vlq b
VlqCmp ==
    /\ op = "Vlq::try_from"
    /\ res.kind = "Ok"
    /\ \E b \in OtherVlqs \cup {res.val} :
           /\ op' = "Vlq::cmp"
           /\ res' = [kind |-> "cmp", a |-> res.val, b |-> b,
                      eq |-> Vlq_eq(res.val, b), ordering |-> Vlq_cmp(res.val, b)]
           /\ UNCHANGED <<val, buf, suffix, debug_assertions, decoder>>

NextVlqCmp == VlqTryFrom \/ VlqCmp

SpecVlqCmp == Init /\ [][NextVlqCmp]_vars

NextVlq == VlqTryFrom \/ VlqToU32 \/ VlqIntoIter \/ StreamAppend \/ VlqParse

SpecVlq == Init /\ [][NextVlq]_vars

(***************************************************************************)
(* Claims about the VLQ codec (checked under SpecVlq).                     *)
(***************************************************************************)

\* C1: for every n in [0, 0x0FFFFFFF], Vlq::try_from(n) succeeds and
\* u32::from of the resulting Vlq yields n; for every n > 0x0FFFFFFF,
\* Vlq::try_from(n) fails with OverMaxSize.
C1_VlqRoundTrip ==
    /\ op = "Vlq::try_from" =>
          IF U32Gt(val, MAX_REPRESENTABLE)
          THEN res.kind = "Err" /\ res.err = "OverMaxSize"
          ELSE res.kind = "Ok"
    /\ op = "u32::from" => res.val = val

\* The largest representable value (four full groups) went through
\* try_from and back through u32::from.
C1_Witness ==
    /\ op = "u32::from"
    /\ val = U32Of(MAX_REPRESENTABLE)
    /\ res.val = val

\* The canonical VLQ of n, from the format's definition: the minimal number k
\* of 7-bit groups, most significant first, top bit set on all but the last.
MinGroups(n) ==
    IF n < 128 THEN 1 ELSE IF n < 16384 THEN 2 ELSE IF n < 2097152 THEN 3 ELSE 4

Pow128(k) == IF k = 0 THEN 1 ELSE IF k = 1 THEN 128 ELSE IF k = 2 THEN 16384 ELSE 2097152

CanonicalVlq(n) ==
    LET k == MinGroups(n) IN
    [i \in 1..k |-> ((n \div Pow128(k - i)) % 128) + (IF i < k THEN 128 ELSE 0)]

\* C2: for every n <= 0x0FFFFFFF the bytes emitted by iterating
\* Vlq::try_from(n) are the canonical VLQ of n (minimal length, most
\* significant group first, continuation bit on all bytes but the last, no
\* leading 0x80), and the literals of the MIDI specification encode as
\* listed there.
C2_VlqCanonicalBytes ==
    op = "Vlq::into_iter" =>
        /\ buf = CanonicalVlq(U32Int(val))
        /\ Len(buf) \in 1..4
        /\ Len(buf) > 1 => buf[1] # 128
        /\ \A i \in 1..Len(buf) : (buf[i] >= 128) <=> (i < Len(buf))
        /\ val = U32Of(0) => buf = <<0>>
        /\ val = U32Of(127) => buf = <<127>>
        /\ val = U32Of(128) => buf = <<129, 0>>
        /\ val = U32Of(16383) => buf = <<255, 127>>
        /\ val = U32Of(1048576) => buf = <<192, 128, 0>>
        /\ val = U32Of(MAX_REPRESENTABLE) => buf = <<255, 255, 255, 127>>

\* 0x100000 was encoded, as C0 80 00: a middle group of zero.
C2_Witness ==
    /\ op = "Vlq::into_iter"
    /\ val = U32Of(1048576)
    /\ buf = <<192, 128, 0>>

\* C3: for every n <= 0x0FFFFFFF and every byte suffix s, Vlq::parse on
\* (encoded bytes of n) ++ s returns Ok((v, rest)) with v equal to
\* Vlq::try_from(n) and rest exactly s.
C3_VlqParseConsumesEncoding ==
    op = "Vlq::parse" =>
        /\ res.kind = "Ok"
        /\ res.val.vlq = Vlq_try_from(val).val
        /\ U32Of(u32_from_Vlq(res.val.vlq)) = val
        /\ res.val.remainder = suffix

\* 0x4000 (81 80 00) followed by a byte with its top bit set was parsed, and
\* the suffix byte was left alone.
C3_Witness ==
    /\ op = "Vlq::parse"
    /\ val = U32Of(16384)
    /\ buf = <<129, 128, 0, 128>>
    /\ res.kind = "Ok"
    /\ res.val.remainder = <<128>>

(***************************************************************************)
(* Integer helpers of the header codec (u8, i8, u16).                      *)
(***************************************************************************)
\* x & y on unsigned integers
RECURSIVE BitAnd(_, _)
BitAnd(x, y) ==
    IF x = 0 \/ y = 0
    THEN 0
    ELSE (x % 2) * (y % 2) + 2 * BitAnd(x \div 2, y \div 2)

\* !x on a u16
Not16(x) == 65535 - x
\* b as i8, for a u8 b
u8_as_i8(b) == IF b >= 128 THEN b - 256 ELSE b
\* c as u8, for an i8 c
i8_as_u8(c) == (c + 256) % 256
\* c as u16, for an i8 c (sign-extends)
i8_as_u16(c) == (c + 65536) % 65536
\* v.to_be_bytes(), for a u16 v
u16_to_be_bytes(v) == <<v \div 256, v % 256>>
\* u16::from_be_bytes([b0, b1])
u16_from_be_bytes(b0, b1) == b0 * 256 + b1
\* (n as u32).to_be_bytes(), for a length n < 2^31
u32_to_be_bytes(n) ==
    <<n \div 16777216, (n \div 65536) % 256, (n \div 256) % 256, n % 256>>
\* value[from..to] (0-based, to exclusive); the caller checks the bounds
Slice(value, from, to) == SubSeq(value, from + 1, to)

(***************************************************************************)
(* src/chunk/header/format.rs, src/macros.rs: backed_enum! Format          *)
(***************************************************************************)
FormatVariants ==
    {"SingleMultiChannelTrack", "OneOrMoreSimultaneousTracks", "OneOrMoreIndependentTracks"}

\* format as u16
Format_as_u16(f) ==
    CASE f = "SingleMultiChannelTrack" -> 0
      [] f = "OneOrMoreSimultaneousTracks" -> 1
      [] f = "OneOrMoreIndependentTracks" -> 2

\* match value { x if x == Format::$name as u16 => Ok(Format::$name), ... ,
\*               _ => Err(InvalidValue) }
Format_try_from(value) ==
    IF value = Format_as_u16("SingleMultiChannelTrack")
    THEN Ok("SingleMultiChannelTrack")
    ELSE IF value = Format_as_u16("OneOrMoreSimultaneousTracks")
    THEN Ok("OneOrMoreSimultaneousTracks")
    ELSE IF value = Format_as_u16("OneOrMoreIndependentTracks")
    THEN Ok("OneOrMoreIndependentTracks")
    ELSE Err("InvalidValue")

\* A faulty variant: the format is written as a single byte.
Format_to_vec_OneByte(f) == <<Format_as_u16(f) % 256>>

\* impl From<Format> for Vec<u8>
Format_to_vec(f) == u16_to_be_bytes(Format_as_u16(f))

(***************************************************************************)
(* src/chunk/header/division.rs                                            *)
(***************************************************************************)
MARKER_BIT_MASK == 32768

SMPTETimecodeFormatVariants == {"TwentyFour", "TwentyFive", "ThirtyDropFrame", "Thirty"}

\* timecode_format as i8
SMPTETimecodeFormat_as_i8(t) ==
    CASE t = "TwentyFour" -> -24
      [] t = "TwentyFive" -> -25
      [] t = "ThirtyDropFrame" -> -29
      [] t = "Thirty" -> -30

\* backed_enum! try_from for SMPTETimecodeFormat(i8, SMPTETimecodeFormatError)
SMPTETimecodeFormat_try_from(value) ==
    IF value = SMPTETimecodeFormat_as_i8("TwentyFour") THEN Ok("TwentyFour")
    ELSE IF value = SMPTETimecodeFormat_as_i8("TwentyFive") THEN Ok("TwentyFive")
    ELSE IF value = SMPTETimecodeFormat_as_i8("ThirtyDropFrame") THEN Ok("ThirtyDropFrame")
    ELSE IF value = SMPTETimecodeFormat_as_i8("Thirty") THEN Ok("Thirty")
    ELSE Err("InvalidValue")

\* enum Division.  One record shape for both variants: the fields of the
\* other variant are absent in the code and hold a fixed filler here.
TicksPerQuarterNote(n) ==
    [tag |-> "TicksPerQuarterNote", ticks |-> n,
     timecode_format |-> "-", ticks_per_frame |-> 0]

SubdivisionsOfASecond(t, n) ==
    [tag |-> "SubdivisionsOfASecond", ticks |-> 0,
     timecode_format |-> t, ticks_per_frame |-> n]

\* A faulty variant: ticks_per_frame is checked before the timecode format.
Division_try_from_TicksFirst(bytes) ==
    IF BitAnd(bytes, MARKER_BIT_MASK) = 0
    THEN LET n == BitAnd(bytes, Not16(MARKER_BIT_MASK)) IN
         IF n = 0
         THEN Err("TicksPerQuarterNoteMustBeGreaterThanZero")
         ELSE Ok(TicksPerQuarterNote(n))
    ELSE LET be == u16_to_be_bytes(bytes)
             tf == SMPTETimecodeFormat_try_from(u8_as_i8(be[1]))
         IN  IF be[2] = 0
             THEN Err("TicksPerFrameMustBeGreaterThanZero")
             ELSE IF tf.kind = "Err"
             THEN Err("SMPTETimecodeFormatError(InvalidValue)")
             ELSE Ok(SubdivisionsOfASecond(tf.val, be[2]))

\* A faulty variant: ticks_per_frame is not checked for zero.
Division_try_from_NoZeroCheck(bytes) ==
    IF BitAnd(bytes, MARKER_BIT_MASK) = 0
    THEN LET n == BitAnd(bytes, Not16(MARKER_BIT_MASK)) IN
         IF n = 0
         THEN Err("TicksPerQuarterNoteMustBeGreaterThanZero")
         ELSE Ok(TicksPerQuarterNote(n))
    ELSE LET be == u16_to_be_bytes(bytes)
             tf == SMPTETimecodeFormat_try_from(u8_as_i8(be[1]))
         IN  IF tf.kind = "Err"
             THEN Err("SMPTETimecodeFormatError(InvalidValue)")
             ELSE Ok(SubdivisionsOfASecond(tf.val, be[2]))

\* impl TryFrom<u16> for Division.  The fields of the struct expression are
\* evaluated in order, each with ?: timecode_format first.
Division_try_from(bytes) ==
    IF BitAnd(bytes, MARKER_BIT_MASK) = 0
    THEN LET n == BitAnd(bytes, Not16(MARKER_BIT_MASK)) IN
         IF n = 0
         THEN Err("TicksPerQuarterNoteMustBeGreaterThanZero")
         ELSE Ok(TicksPerQuarterNote(n))
    ELSE LET be == u16_to_be_bytes(bytes)
             tf == SMPTETimecodeFormat_try_from(u8_as_i8(be[1]))
         IN  IF tf.kind = "Err"
             THEN Err("SMPTETimecodeFormatError(InvalidValue)")
             ELSE IF be[2] = 0
             THEN Err("TicksPerFrameMustBeGreaterThanZero")
             ELSE Ok(SubdivisionsOfASecond(tf.val, be[2]))

\* impl From<Division> for Vec<u8>.  dbg: debug_assert! is compiled in.
Division_to_vec(div, dbg) ==
    IF div.tag = "TicksPerQuarterNote"
    THEN \* debug_assert!(n.get() & Division::MARKER_BIT_MASK == 0)
         IF dbg /\ BitAnd(div.ticks, MARKER_BIT_MASK) # 0
         THEN Panic("debug_assert!(n.get() & MARKER_BIT_MASK == 0)")
         ELSE Ok(u16_to_be_bytes(div.ticks))
    ELSE \* debug_assert!((timecode_format as u16) << 8 & MARKER_BIT_MASK
         \*                == MARKER_BIT_MASK)
         LET shifted == (i8_as_u16(SMPTETimecodeFormat_as_i8(div.timecode_format)) % 256) * 256
         IN  IF dbg /\ BitAnd(shifted, MARKER_BIT_MASK) # MARKER_BIT_MASK
             THEN Panic("debug_assert!(timecode_format marker bit)")
             ELSE Ok(<<i8_as_u8(SMPTETimecodeFormat_as_i8(div.timecode_format)),
                       div.ticks_per_frame>>)

\* Division::high_byte
Division_high_byte(div) ==
    IF div.tag = "TicksPerQuarterNote"
    THEN u16_to_be_bytes(BitAnd(Not16(MARKER_BIT_MASK), div.ticks))[1]
    ELSE i8_as_u8(SMPTETimecodeFormat_as_i8(div.timecode_format))

\* Division::low_byte
Division_low_byte(div) ==
    IF div.tag = "TicksPerQuarterNote"
    THEN u16_to_be_bytes(BitAnd(Not16(MARKER_BIT_MASK), div.ticks))[2]
    ELSE div.ticks_per_frame

(***************************************************************************)
(* Inputs of the Division codec.                                           *)
(***************************************************************************)
U16Values == 0..65535

\* NonZeroU16 values: the edges of the range and of the marker bit.
NonZeroU16Samples ==
    (1..(1 + EdgeWidth)) \cup {11, 255, 256, 1024}
        \cup ((32767 - EdgeWidth)..32767) \cup (32768..(32768 + EdgeWidth))
        \cup ((65535 - EdgeWidth)..65535)

NonZeroU8Samples ==
    (1..(1 + EdgeWidth)) \cup {80, 127, 128} \cup ((255 - EdgeWidth)..255)

\* Every Division the public enum lets a caller construct.
DivisionSamples ==
    { TicksPerQuarterNote(n) : n \in NonZeroU16Samples }
        \cup { SubdivisionsOfASecond(t, n) :
                 t \in SMPTETimecodeFormatVariants, n \in NonZeroU8Samples }

(***************************************************************************)
(* The caller of the Division codec.                                       *)
(***************************************************************************)
\* Division::try_from(v), for any u16
DivisionTryFrom ==
    /\ op = "init"
    /\ \E v \in U16Values :
           /\ op' = "Division::try_from"
           /\ val' = v
           /\ res' = Division_try_from(v)
           /\ UNCHANGED <<buf, suffix, debug_assertions, decoder>>

\* the caller constructs a Division
DivisionNew ==
    /\ op = "init"
    /\ \E d \in DivisionSamples :
           /\ op' = "Division"
           /\ val' = d
           /\ UNCHANGED <<buf, suffix, res, debug_assertions, decoder>>

\* Vec::<u8>::from(division)
DivisionToVec ==
    /\ op = "Division"
    /\ op' = "Vec::from(Division)"
    /\ res' = Division_to_vec(val, debug_assertions)
    /\ buf' = IF res'.kind = "Ok" THEN res'.val ELSE <<>>
    /\ UNCHANGED <<val, suffix, debug_assertions, decoder>>

\* [division.high_byte(), division.low_byte()]
DivisionHighLow ==
    /\ op = "Division"
    /\ op' = "Division::high_byte,low_byte"
    /\ buf' = <<Division_high_byte(val), Division_low_byte(val)>>
    /\ UNCHANGED <<val, suffix, res, debug_assertions, decoder>>

\* Division::try_from(u16::from_be_bytes(encoded))
DivisionDecodeEncoded ==
    /\ op \in {"Vec::from(Division)", "Division::high_byte,low_byte"}
    /\ Len(buf) = 2
    /\ op' = "Division::try_from(encoded)"
    /\ res' = Division_try_from(u16_from_be_bytes(buf[1], buf[2]))
    /\ UNCHANGED <<val, buf, suffix, debug_assertions, decoder>>

NextDivision ==
    DivisionTryFrom \/ DivisionNew \/ DivisionToVec \/ DivisionHighLow
        \/ DivisionDecodeEncoded

SpecDivision == Init /\ [][NextDivision]_vars

(***************************************************************************)
(* Claims about Division (checked under SpecDivision).                     *)
(***************************************************************************)
LegalRates == {-24, -25, -29, -30}

\* C4: Division::try_from(u16) is total and partitions all 65536 inputs:
\* 0 -> Err(TicksPerQuarterNoteMustBeGreaterThanZero); 1..=0x7FFF ->
\* Ok(TicksPerQuarterNote(value)); top bit set and high byte (as i8) not a
\* legal rate -> Err(SMPTETimecodeFormatError(InvalidValue)); top bit set,
\* legal rate, low byte 0 -> Err(TicksPerFrameMustBeGreaterThanZero);
\* otherwise Ok(SubdivisionsOfASecond{rate from high byte, ticks_per_frame =
\* low byte}).  0x0001 -> TicksPerQuarterNote(1), 0xE250 -> {-30, 80}.
C4_DivisionPartition ==
    op = "Division::try_from" =>
        LET rate == (val \div 256) - 256
            low  == val % 256
        IN  /\ res.kind \in {"Ok", "Err"}
            /\ val = 0 =>
                 res = Err("TicksPerQuarterNoteMustBeGreaterThanZero")
            /\ val \in 1..32767 =>
                 res = Ok(TicksPerQuarterNote(val))
            /\ (val >= 32768 /\ rate \notin LegalRates) =>
                 res = Err("SMPTETimecodeFormatError(InvalidValue)")
            /\ (val >= 32768 /\ rate \in LegalRates /\ low = 0) =>
                 res = Err("TicksPerFrameMustBeGreaterThanZero")
            /\ (val >= 32768 /\ rate \in LegalRates /\ low # 0) =>
                 /\ res.kind = "Ok"
                 /\ res.val.tag = "SubdivisionsOfASecond"
                 /\ SMPTETimecodeFormat_as_i8(res.val.timecode_format) = rate
                 /\ res.val.ticks_per_frame = low
            /\ val = 1 => res = Ok(TicksPerQuarterNote(1))
            /\ val = 57936 => res = Ok(SubdivisionsOfASecond("Thirty", 80))

\* 0xE250 was decoded, to SMPTE -30 with 80 ticks per frame.
C4_Witness ==
    /\ op = "Division::try_from"
    /\ val = 57936
    /\ res = Ok(SubdivisionsOfASecond("Thirty", 80))

\* C5 as stated: every u16 with the top bit set and a low byte of 0 fails
\* with TicksPerFrameMustBeGreaterThanZero.
C5_Original ==
    (op = "Division::try_from" /\ val >= 32768 /\ val % 256 = 0) =>
        res = Err("TicksPerFrameMustBeGreaterThanZero")

\* C5, amended: every u16 with the top bit set and a low byte of 0 fails:
\* with TicksPerFrameMustBeGreaterThanZero when its high byte is one of the
\* four legal SMPTE rates, and with SMPTETimecodeFormatError(InvalidValue)
\* otherwise (the rate is checked first).
C5_ZeroTicksPerFrame ==
    (op = "Division::try_from" /\ val >= 32768 /\ val % 256 = 0) =>
        IF (val \div 256) - 256 \in LegalRates
        THEN res = Err("TicksPerFrameMustBeGreaterThanZero")
        ELSE res = Err("SMPTETimecodeFormatError(InvalidValue)")

\* 0xE200 (rate -30, zero ticks per frame) was rejected for its ticks.
C5_Witness ==
    /\ op = "Division::try_from"
    /\ val = 57856
    /\ res = Err("TicksPerFrameMustBeGreaterThanZero")

\* C6: for every constructible Division d (TicksPerQuarterNote of any
\* NonZeroU16, SubdivisionsOfASecond of any legal rate and any NonZeroU8) the
\* encoded first byte has its top bit clear exactly when d is
\* TicksPerQuarterNote, and Division::try_from of the encoded value is Ok(d).
C6_MarkerBitAgrees ==
    /\ op = "Vec::from(Division)" =>
          /\ res.kind = "Ok"
          /\ (buf[1] < 128) <=> (val.tag = "TicksPerQuarterNote")
    /\ op = "Division::high_byte,low_byte" =>
          ((buf[1] < 128) <=> (val.tag = "TicksPerQuarterNote"))
    /\ op = "Division::try_from(encoded)" => res = Ok(val)

(***************************************************************************)
(* src/chunk/mod.rs, src/chunk/header/chunk.rs                             *)
(***************************************************************************)
\* b"MThd" and b"MTrk"
MThd == <<77, 84, 104, 100>>
MTrk == <<77, 84, 114, 107>>

\* impl From<ChunkType> for Vec<u8>
ChunkType_to_vec(t) == IF t = "Header" THEN MThd ELSE MTrk

\* struct Chunk { format, ntrks: NonZeroU16, division }, Chunk::new
HeaderChunk(format, ntrks, division) ==
    [format |-> format, ntrks |-> ntrks, division |-> division]

\* impl From<Chunk> for Vec<u8>.  dbg: debug_assert! is compiled in.
Chunk_to_vec(chunk, dbg) ==
    LET d == Division_to_vec(chunk.division, dbg) IN
    IF d.kind = "Panic"
    THEN d
    ELSE LET payload_bytes ==
                 Format_to_vec(chunk.format) \o u16_to_be_bytes(chunk.ntrks) \o d.val
         IN  IF dbg /\ Len(payload_bytes) # 6
             THEN Panic("debug_assert!(payload_bytes.len() == 6)")
             ELSE Ok(ChunkType_to_vec("Header")
                        \o u32_to_be_bytes(Len(payload_bytes))
                        \o payload_bytes)

\* A faulty variant: ntrks is written low byte first.
Chunk_into_iter_LittleEndianNtrks(chunk) ==
    MThd \o <<0, 0, 0, 6>>
        \o <<u16_to_be_bytes(Format_as_u16(chunk.format))[1],
             u16_to_be_bytes(Format_as_u16(chunk.format))[2],
             u16_to_be_bytes(chunk.ntrks)[2],
             u16_to_be_bytes(chunk.ntrks)[1],
             Division_high_byte(chunk.division),
             Division_low_byte(chunk.division)>>

\* impl IntoIterator for Chunk
Chunk_into_iter(chunk) ==
    <<77, 84, 104, 100, 0, 0, 0, 6>>
        \o <<u16_to_be_bytes(Format_as_u16(chunk.format))[1],
             u16_to_be_bytes(Format_as_u16(chunk.format))[2],
             u16_to_be_bytes(chunk.ntrks)[1],
             u16_to_be_bytes(chunk.ntrks)[2],
             Division_high_byte(chunk.division),
             Division_low_byte(chunk.division)>>

\* impl From<DivisionError> for ChunkError
ChunkError_from_DivisionError(e) ==
    CASE e = "TicksPerQuarterNoteMustBeGreaterThanZero" ->
             "Division(TicksPerQuarterNoteMustBeGreaterThanZero)"
      [] e = "TicksPerFrameMustBeGreaterThanZero" ->
             "Division(TicksPerFrameMustBeGreaterThanZero)"
      [] e = "SMPTETimecodeFormatError(InvalidValue)" ->
             "Division(SMPTETimecodeFormatError(InvalidValue))"

\* A faulty variant: ntrks is taken unchecked (NonZeroU16::new_unchecked).
Chunk_try_from_fields_NtrksUnchecked(value) ==
    IF Len(value) < 14
    THEN Panic("index out of bounds")
    ELSE LET f == Format_try_from(u16_from_be_bytes(value[9], value[10]))
             n == u16_from_be_bytes(value[11], value[12])
             d == Division_try_from(u16_from_be_bytes(value[13], value[14]))
         IN  IF f.kind = "Err"
             THEN Err("Format(InvalidValue)")
             ELSE IF d.kind = "Err"
             THEN Err(ChunkError_from_DivisionError(d.err))
             ELSE Ok(HeaderChunk(f.val, n, d.val))

\* A faulty variant: the division is decoded before format and ntrks.
Chunk_try_from_fields_DivisionFirst(value) ==
    IF Len(value) < 14
    THEN Panic("index out of bounds")
    ELSE LET f == Format_try_from(u16_from_be_bytes(value[9], value[10]))
             n == u16_from_be_bytes(value[11], value[12])
             d == Division_try_from(u16_from_be_bytes(value[13], value[14]))
         IN  IF d.kind = "Err"
             THEN Err(ChunkError_from_DivisionError(d.err))
             ELSE IF f.kind = "Err"
             THEN Err("Format(InvalidValue)")
             ELSE IF n = 0
             THEN Err("NumberOfTracks")
             ELSE Ok(HeaderChunk(f.val, n, d.val))

\* The fields of Ok(Chunk { format: ..?, ntrks: ..?, division: ..? }), read
\* in order.  value[i] panics when i is not below value.len().
Chunk_try_from_fields(value) ==
    IF Len(value) < 14
    THEN Panic("index out of bounds")
    ELSE LET f == Format_try_from(u16_from_be_bytes(value[9], value[10]))
             n == u16_from_be_bytes(value[11], value[12])
             d == Division_try_from(u16_from_be_bytes(value[13], value[14]))
         IN  IF f.kind = "Err"
             THEN Err("Format(InvalidValue)")
             ELSE IF n = 0
             THEN Err("NumberOfTracks")
             ELSE IF d.kind = "Err"
             THEN Err(ChunkError_from_DivisionError(d.err))
             ELSE Ok(HeaderChunk(f.val, n, d.val))

\* impl TryFrom<&[u8]> for Chunk.  A range value[a..b] panics when b is
\* above value.len().
Chunk_try_from(value) ==
    IF Len(value) # 14
    THEN Err("SliceSize")
    ELSE IF Len(value) < 4
    THEN Panic("range end index out of range")
    ELSE IF Slice(value, 0, 4) # <<77, 84, 104, 100>>
    THEN Err("ChunkType")
    ELSE IF Len(value) < 8
    THEN Panic("range end index out of range")
    ELSE IF Slice(value, 4, 8) # <<0, 0, 0, 6>>
    THEN Err("ChunkLength")
    ELSE Chunk_try_from_fields(value)

(***************************************************************************)
(* src/chunk/header.rs: the earlier revision of the header decoder.        *)
(***************************************************************************)
\* A faulty variant: the mask covers 14 bits, the case the assert! message names.
TICKS_PER_QUARTER_NOTE_MASK_14Bits == 16384 - 1

TICKS_PER_QUARTER_NOTE_MASK == 32767

\* impl TryFrom<u16> for Format
Legacy_Format_try_from(value) ==
    IF value = 0 THEN Ok("SingleMultiChannelTrack")
    ELSE IF value = 1 THEN Ok("OneOrMoreSimultaneousTracks")
    ELSE IF value = 2 THEN Ok("OneOrMoreIndependentTracks")
    ELSE Err("InvalidValue")

\* impl TryFrom<i8> for SMPTETimecodeFormat
Legacy_SMPTETimecodeFormat_try_from(value) ==
    IF value = -24 THEN Ok("NegTwentyFour")
    ELSE IF value = -25 THEN Ok("NegTwentyFive")
    ELSE IF value = -29 THEN Ok("NegTwentyNine")
    ELSE IF value = -30 THEN Ok("NegThirty")
    ELSE Err("InvalidValue")

\* impl TryFrom<u16> for Division
Legacy_Division_try_from(bytes) ==
    IF bytes = 0
    THEN Err("TicksPerQuarterNoteMustBeGreaterThanZero")
    ELSE LET inverse_mask == Not16(TICKS_PER_QUARTER_NOTE_MASK)
             be == u16_to_be_bytes(bytes)
             timecode_format == Legacy_SMPTETimecodeFormat_try_from(u8_as_i8(be[1]))
         IN  IF BitAnd(bytes, inverse_mask) = 0
             THEN Ok(TicksPerQuarterNote(BitAnd(bytes, TICKS_PER_QUARTER_NOTE_MASK)))
             ELSE IF BitAnd(bytes, inverse_mask) # inverse_mask
             THEN Panic("assert!(bytes & inverse_mask == inverse_mask)")
             ELSE IF timecode_format.kind = "Err"
             THEN Err("SMPTETimecodeFormatError(InvalidValue)")
             ELSE IF be[2] = 0
             THEN Err("TicksPerFrameMustBeGreaterThanZero")
             ELSE Ok(SubdivisionsOfASecond(timecode_format.val, be[2]))

\* impl From<DivisionError> for ChunkError
Legacy_ChunkError_from_DivisionError(e) ==
    CASE e = "TicksPerQuarterNoteMustBeGreaterThanZero" ->
             "InvalidDivision(TicksPerQuarterNoteMustBeGreaterThanZero)"
      [] e = "TicksPerFrameMustBeGreaterThanZero" ->
             "InvalidDivision(TicksPerFrameMustBeGreaterThanZero)"
      [] e = "SMPTETimecodeFormatError(InvalidValue)" ->
             "InvalidDivision(SMPTETimecodeFormatError(InvalidValue))"

\* impl TryFrom<&[u8]> for Chunk: the track count is checked before the
\* format is decoded.
Legacy_Chunk_try_from(value) ==
    IF Len(value) # 14
    THEN Err("InvalidSize")
    ELSE IF Len(value) < 4
    THEN Panic("range end index out of range")
    ELSE IF Slice(value, 0, 4) # <<77, 84, 104, 100>>
    THEN Err("InvalidType")
    ELSE IF Len(value) < 8
    THEN Panic("range end index out of range")
    ELSE IF Slice(value, 4, 8) # <<0, 0, 0, 6>>
    THEN Err("InvalidLength")
    ELSE IF Len(value) < 14
    THEN Panic("index out of bounds")
    ELSE IF u16_from_be_bytes(value[11], value[12]) = 0
    THEN Err("InvalidNumberOfTracks")
    ELSE LET f == Legacy_Format_try_from(u16_from_be_bytes(value[9], value[10]))
             d == Legacy_Division_try_from(u16_from_be_bytes(value[13], value[14]))
         IN  IF f.kind = "Err"
             THEN Err("InvalidFormat(InvalidValue)")
             ELSE IF d.kind = "Panic"
             THEN d
             ELSE IF d.kind = "Err"
             THEN Err(Legacy_ChunkError_from_DivisionError(d.err))
             ELSE Ok(HeaderChunk(f.val, u16_from_be_bytes(value[11], value[12]), d.val))

(***************************************************************************)
(* Inputs of the header codec.                                             *)
(***************************************************************************)
NTrksSamples == (1..(1 + EdgeWidth)) \cup {11, 256} \cup ((65535 - EdgeWidth)..65535)

\* Every header Chunk::new accepts.
HeaderChunkSamples ==
    { HeaderChunk(f, n, d) :
        f \in FormatVariants, n \in NTrksSamples, d \in DivisionSamples }

\* Raw 16-bit fields of a header payload: legal and illegal codes.
FormatFieldSamples == (0..(2 + EdgeWidth)) \cup {256, 258} \cup ((65535 - EdgeWidth)..65535)
NTrksFieldSamples  == (0..EdgeWidth) \cup {11, 256} \cup ((65535 - EdgeWidth)..65535)
\* the first division byte: both layouts, the four rates (0xE2, 0xE3, 0xE7,
\* 0xE8) and their neighbours
DivisionHighSamples ==
    (0..EdgeWidth) \cup {4, 127, 128} \cup (225..233) \cup ((255 - EdgeWidth)..255)
DivisionLowSamples == (0..EdgeWidth) \cup {80} \cup ((255 - EdgeWidth)..255)

\* 14-byte buffers with a well-formed envelope and any payload fields.
EnvelopeOkBuffers ==
    { MThd \o <<0, 0, 0, 6>> \o u16_to_be_bytes(f) \o u16_to_be_bytes(n) \o <<h, l>> :
        f \in FormatFieldSamples, n \in NTrksFieldSamples,
        h \in DivisionHighSamples, l \in DivisionLowSamples }

\* 14-byte buffers with a wrong tag or a wrong length field.
EnvelopeBadBuffers ==
    { tag \o len \o payload :
        tag \in {MThd, MTrk, <<0, 0, 0, 0>>, <<77, 84, 104, 68>>},
        len \in {<<0, 0, 0, 6>>, <<0, 0, 0, 5>>, <<0, 0, 0, 7>>, <<6, 0, 0, 0>>, <<0, 0, 1, 6>>},
        payload \in {<<0, 1, 0, 11, 4, 0>>, <<0, 3, 0, 0, 128, 0>>} }

\* Buffers that are not 14 bytes long.
WrongSizeBuffers ==
    { <<>>, MThd, MThd \o <<0, 0, 0, 6>>,
      MThd \o <<0, 0, 0, 6, 0, 1, 0, 11, 4>>,
      MThd \o <<0, 0, 0, 6, 0, 1, 0, 11, 4, 0, 0>> }

HeaderBuffers == EnvelopeOkBuffers \cup EnvelopeBadBuffers \cup WrongSizeBuffers

(***************************************************************************)
(* The caller of the header codec.                                         *)
(***************************************************************************)
\* Chunk::new(format, ntrks, division)
HeaderNew ==
    /\ op = "init"
    /\ \E c \in HeaderChunkSamples :
           /\ op' = "Chunk::new"
           /\ val' = c
           /\ UNCHANGED <<buf, suffix, res, debug_assertions, decoder>>

\* Vec::<u8>::from(chunk)
HeaderToVec ==
    /\ op = "Chunk::new"
    /\ op' = "Vec::from(Chunk)"
    /\ res' = Chunk_to_vec(val, debug_assertions)
    /\ buf' = IF res'.kind = "Ok" THEN res'.val ELSE <<>>
    /\ UNCHANGED <<val, suffix, debug_assertions, decoder>>

\* chunk.into_iter().collect::<Vec<u8>>()
HeaderIntoIter ==
    /\ op = "Chunk::new"
    /\ op' = "Chunk::into_iter"
    /\ buf' = Chunk_into_iter(val)
    /\ UNCHANGED <<val, suffix, res, debug_assertions, decoder>>

\* the caller is handed a byte buffer
HeaderLoad ==
    /\ op = "init"
    /\ \E b \in HeaderBuffers :
           /\ op' = "buffer"
           /\ buf' = b
           /\ UNCHANGED <<val, suffix, res, debug_assertions, decoder>>

\* Chunk::try_from(&buf[..]) on the bytes just encoded
HeaderTryFromEncoded ==
    /\ \/ op = "Chunk::into_iter"
       \/ op = "Vec::from(Chunk)" /\ res.kind = "Ok"
    /\ op' = "Chunk::try_from(encoded)"
    /\ res' = Chunk_try_from(buf)
    /\ UNCHANGED <<val, buf, suffix, debug_assertions, decoder>>

\* Chunk::try_from(&buf[..]) on a buffer handed in
HeaderTryFrom ==
    /\ op = "buffer"
    /\ op' = "Chunk::try_from"
    /\ res' = Chunk_try_from(buf)
    /\ UNCHANGED <<val, buf, suffix, debug_assertions, decoder>>

\* the earlier revision's Chunk::try_from(&buf[..]) on a buffer handed in
LegacyHeaderTryFrom ==
    /\ op = "buffer"
    /\ op' = "header.rs Chunk::try_from"
    /\ res' = Legacy_Chunk_try_from(buf)
    /\ UNCHANGED <<val, buf, suffix, debug_assertions, decoder>>

NextHeader ==
    HeaderNew \/ HeaderToVec \/ HeaderIntoIter \/ HeaderLoad
        \/ HeaderTryFromEncoded \/ HeaderTryFrom \/ LegacyHeaderTryFrom

SpecHeader == Init /\ [][NextHeader]_vars

(***************************************************************************)
(* Claims about the header chunk (checked under SpecHeader).               *)
(***************************************************************************)
\* A division within the ranges of the file format.
ValidDivision(d) ==
    \/ /\ d.tag = "TicksPerQuarterNote"
       /\ d.ticks \in 1..32767
    \/ /\ d.tag = "SubdivisionsOfASecond"
       /\ d.timecode_format \in SMPTETimecodeFormatVariants
       /\ SMPTETimecodeFormat_as_i8(d.timecode_format) \in LegalRates
       /\ d.ticks_per_frame \in 1..255

\* A header within the ranges of the file format.
ValidHeader(c) ==
    /\ c.format \in FormatVariants
    /\ Format_as_u16(c.format) \in {0, 1, 2}
    /\ c.ntrks \in 1..65535
    /\ ValidDivision(c.division)

\* The same, for a header of the earlier revision (its rate names differ).
ValidLegacyHeader(c) ==
    /\ c.format \in FormatVariants
    /\ c.ntrks \in 1..65535
    /\ \/ /\ c.division.tag = "TicksPerQuarterNote"
          /\ c.division.ticks \in 1..32767
       \/ /\ c.division.tag = "SubdivisionsOfASecond"
          /\ c.division.timecode_format
                \in {"NegTwentyFour", "NegTwentyFive", "NegTwentyNine", "NegThirty"}
          /\ c.division.ticks_per_frame \in 1..255

ChunkErrors ==
    {"SliceSize", "ChunkType", "ChunkLength", "Format(InvalidValue)", "NumberOfTracks",
     "Division(TicksPerQuarterNoteMustBeGreaterThanZero)",
     "Division(TicksPerFrameMustBeGreaterThanZero)",
     "Division(SMPTETimecodeFormatError(InvalidValue))"}

LegacyChunkErrors ==
    {"InvalidSize", "InvalidType", "InvalidLength", "InvalidFormat(InvalidValue)",
     "InvalidNumberOfTracks",
     "InvalidDivision(TicksPerQuarterNoteMustBeGreaterThanZero)",
     "InvalidDivision(TicksPerFrameMustBeGreaterThanZero)",
     "InvalidDivision(SMPTETimecodeFormatError(InvalidValue))"}

\* C7: for every valid header (format one of the three codes, ntrks > 0,
\* division TicksPerQuarterNote with 1..=0x7FFF ticks or SubdivisionsOfASecond
\* with a legal rate and nonzero ticks_per_frame), decoding the 14 bytes
\* produced by encoding Chunk::new(format, ntrks, division) returns Ok of an
\* equal Chunk (with either encoder).
C7_HeaderRoundTrip ==
    /\ (op = "Vec::from(Chunk)" /\ ValidHeader(val)) =>
          res.kind = "Ok" /\ Len(buf) = 14
    /\ (op = "Chunk::into_iter" /\ ValidHeader(val)) => Len(buf) = 14
    /\ (op = "Chunk::try_from(encoded)" /\ ValidHeader(val)) => res = Ok(val)

\* The header of the end-to-end scenario (format 1, 11 tracks, 1024 ticks per
\* quarter note) was encoded and decoded back.
C7_Witness ==
    /\ op = "Chunk::try_from(encoded)"
    /\ val = HeaderChunk("OneOrMoreSimultaneousTracks", 11, TicksPerQuarterNote(1024))
    /\ res = Ok(val)

\* C8: for every 14-byte buffer, the header Chunk::try_from (of
\* header/chunk.rs, and of header.rs with its assert!) returns Ok of a valid
\* header or one of the ChunkError values; it never panics and never indexes
\* outside the buffer.
C8_HeaderDecodeNeverPanics ==
    /\ (op = "Chunk::try_from" /\ Len(buf) = 14) =>
          \/ res.kind = "Ok" /\ ValidHeader(res.val)
          \/ res.kind = "Err" /\ res.err \in ChunkErrors
    /\ (op = "header.rs Chunk::try_from" /\ Len(buf) = 14) =>
          \/ res.kind = "Ok" /\ ValidLegacyHeader(res.val)
          \/ res.kind = "Err" /\ res.err \in LegacyChunkErrors

\* A 14-byte buffer whose division has the top bit set went through the
\* earlier revision's decoder, past its assert!, and decoded.
C8_Witness ==
    /\ op = "header.rs Chunk::try_from"
    /\ Len(buf) = 14
    /\ buf[13] = 226
    /\ res.kind = "Ok"
    /\ res.val.division.tag = "SubdivisionsOfASecond"

\* C9: every encoded header chunk is exactly 14 bytes: the tag 'MThd', the
\* big-endian length 00 00 00 06, then big-endian u16 format code, big-endian
\* u16 ntrks, and the two division bytes; the length field equals the actual
\* payload size, 6.
C9_EncodedHeaderLayout ==
    (\/ op = "Chunk::into_iter"
     \/ op = "Vec::from(Chunk)" /\ res.kind = "Ok") =>
        /\ Len(buf) = 14
        /\ SubSeq(buf, 1, 4) = <<77, 84, 104, 100>>
        /\ SubSeq(buf, 5, 8) = <<0, 0, 0, 6>>
        /\ ((buf[5] * 256 + buf[6]) * 256 + buf[7]) * 256 + buf[8] = Len(buf) - 8
        /\ buf[9] * 256 + buf[10] = Format_as_u16(val.format)
        /\ buf[11] * 256 + buf[12] = val.ntrks
        /\ buf[13] \in 0..255
        /\ buf[14] \in 0..255

\* A header with 256 tracks was encoded by Vec::from: ntrks is 01 00.
C9_Witness ==
    /\ op = "Vec::from(Chunk)"
    /\ res.kind = "Ok"
    /\ val.ntrks = 256
    /\ Len(buf) = 14
    /\ buf[11] = 1
    /\ buf[12] = 0

\* C10: every header Chunk the header decoder returns as Ok has a format code
\* in {0,1,2}, ntrks > 0, and a division that is TicksPerQuarterNote(t) with
\* 1 <= t <= 0x7FFF or SubdivisionsOfASecond with a rate in {-24,-25,-29,-30}
\* and ticks_per_frame >= 1.
C10_DecodedHeaderValid ==
    (op \in {"Chunk::try_from", "Chunk::try_from(encoded)"} /\ res.kind = "Ok") =>
        ValidHeader(res.val)

\* A buffer with an SMPTE division decoded to a header.
C10_Witness ==
    /\ op = "Chunk::try_from"
    /\ res.kind = "Ok"
    /\ res.val.division = SubdivisionsOfASecond("TwentyFour", 255)

(***************************************************************************)
(* src/macros.rs: backed_enum!, and the enums declared with it in          *)
(* src/chunk/track/chunk.rs.  An enum is the list of its variants in       *)
(* declaration order, each with its discriminant.                          *)
(***************************************************************************)
\* A faulty variant: the match has lost its last arm.
backed_enum_try_from_MissingLastArm(variants, value) ==
    LET matching == { i \in 1..(Len(variants) - 1) : value = variants[i].code } IN
    IF matching = {}
    THEN Err("InvalidValue")
    ELSE Ok(variants[CHOOSE i \in matching : \A j \in matching : i <= j].name)

\* match value { $(x if x == $enum_name::$name as $repr => Ok($enum_name::$name),)*
\*               _ => Err(Self::Error::InvalidValue) }
\* The arms are tried in declaration order.
backed_enum_try_from(variants, value) ==
    LET matching == { i \in 1..Len(variants) : value = variants[i].code } IN
    IF matching = {}
    THEN Err("InvalidValue")
    ELSE Ok(variants[CHOOSE i \in matching : \A j \in matching : i <= j].name)

\* $enum_name::$name as $repr
backed_enum_as(variants, name) ==
    variants[CHOOSE i \in 1..Len(variants) : variants[i].name = name].code

VoiceMessage ==
    << [name |-> "NoteOff",         code |-> 128],
       [name |-> "NoteOn",          code |-> 144],
       [name |-> "PolyKeyPressure", code |-> 160],
       [name |-> "ControlChange",   code |-> 176],
       [name |-> "ProgramChange",   code |-> 192],
       [name |-> "ChannelPressure", code |-> 208],
       [name |-> "PitchBend",       code |-> 224] >>

ModeMessage ==
    << [name |-> "AllSoundOff",         code |-> 120],
       [name |-> "ResetAllControllers", code |-> 121],
       [name |-> "LocalControl",        code |-> 122],
       [name |-> "AllNotesOff",         code |-> 123],
       [name |-> "OmniOff",             code |-> 124],
       [name |-> "OmniOn",              code |-> 125],
       [name |-> "Mono",                code |-> 126],
       [name |-> "Poly",                code |-> 127] >>

KeyType ==
    << [name |-> "Major", code |-> 0],
       [name |-> "Minor", code |-> 1] >>

SharpsOrFlats ==
    << [name |-> "SevenFlats",  code |-> -7],
       [name |-> "SixFlats",    code |-> -6],
       [name |-> "FiveFlats",   code |-> -5],
       [name |-> "FourFlats",   code |-> -4],
       [name |-> "ThreeFlats",  code |-> -3],
       [name |-> "TwoFlats",    code |-> -2],
       [name |-> "OneFlat",     code |-> -1],
       [name |-> "None",        code |-> 0],
       [name |-> "OneSharp",    code |-> 1],
       [name |-> "TwoSharps",   code |-> 2],
       [name |-> "ThreeSharps", code |-> 3],
       [name |-> "FourSharps",  code |-> 4],
       [name |-> "FiveSharps",  code |-> 5],
       [name |-> "SixSharps",   code |-> 6],
       [name |-> "SevenSharps", code |-> 7] >>

VoiceMessage_try_from(value)  == backed_enum_try_from(VoiceMessage, value)
ModeMessage_try_from(value)   == backed_enum_try_from(ModeMessage, value)
KeyType_try_from(value)       == backed_enum_try_from(KeyType, value)
SharpsOrFlats_try_from(value) == backed_enum_try_from(SharpsOrFlats, value)

VariantNames(variants) == { variants[i].name : i \in 1..Len(variants) }

(***************************************************************************)
(* The caller of the backed enums: every integer of the backing type is    *)
(* handed to try_from, and every variant is cast and handed back.          *)
(***************************************************************************)
BackedEnums ==
    {"Format", "SMPTETimecodeFormat", "VoiceMessage", "ModeMessage", "KeyType",
     "SharpsOrFlats"}

\* the variants of each enum
EnumVariants(e) ==
    CASE e = "Format"              -> FormatVariants
      [] e = "SMPTETimecodeFormat" -> SMPTETimecodeFormatVariants
      [] e = "VoiceMessage"        -> VariantNames(VoiceMessage)
      [] e = "ModeMessage"         -> VariantNames(ModeMessage)
      [] e = "KeyType"             -> VariantNames(KeyType)
      [] e = "SharpsOrFlats"       -> VariantNames(SharpsOrFlats)

\* the integers of each enum's backing type ($repr)
ReprValues(e) ==
    CASE e = "Format"                               -> U16Values
      [] e \in {"SMPTETimecodeFormat", "SharpsOrFlats"} -> -128..127
      [] e \in {"VoiceMessage", "ModeMessage", "KeyType"} -> 0..255

\* <$enum_name as TryFrom<$repr>>::try_from(value)
Enum_try_from(e, value) ==
    CASE e = "Format"              -> Format_try_from(value)
      [] e = "SMPTETimecodeFormat" -> SMPTETimecodeFormat_try_from(value)
      [] e = "VoiceMessage"        -> VoiceMessage_try_from(value)
      [] e = "ModeMessage"         -> ModeMessage_try_from(value)
      [] e = "KeyType"             -> KeyType_try_from(value)
      [] e = "SharpsOrFlats"       -> SharpsOrFlats_try_from(value)

\* variant as $repr
Enum_as(e, v) ==
    CASE e = "Format"              -> Format_as_u16(v)
      [] e = "SMPTETimecodeFormat" -> SMPTETimecodeFormat_as_i8(v)
      [] e = "VoiceMessage"        -> backed_enum_as(VoiceMessage, v)
      [] e = "ModeMessage"         -> backed_enum_as(ModeMessage, v)
      [] e = "KeyType"             -> backed_enum_as(KeyType, v)
      [] e = "SharpsOrFlats"       -> backed_enum_as(SharpsOrFlats, v)

\* E::try_from(x), for any x of the backing type
EnumTryFrom ==
    /\ op = "init"
    /\ \E e \in BackedEnums :
         \E x \in ReprValues(e) :
           /\ op' = "try_from"
           /\ val' = [enum |-> e, variant |-> "-", value |-> x]
           /\ res' = Enum_try_from(e, x)
           /\ UNCHANGED <<buf, suffix, debug_assertions, decoder>>

\* v as repr, for a variant v
EnumAs ==
    /\ op = "init"
    /\ \E e \in BackedEnums :
         \E v \in EnumVariants(e) :
           /\ op' = "as repr"
           /\ val' = [enum |-> e, variant |-> v, value |-> Enum_as(e, v)]
           /\ UNCHANGED <<buf, suffix, res, debug_assertions, decoder>>

\* E::try_from(v as repr)
EnumTryFromAs ==
    /\ op = "as repr"
    /\ op' = "try_from(as repr)"
    /\ res' = Enum_try_from(val.enum, val.value)
    /\ UNCHANGED <<val, buf, suffix, debug_assertions, decoder>>

NextEnums == EnumTryFrom \/ EnumAs \/ EnumTryFromAs

SpecEnums == Init /\ [][NextEnums]_vars

\* the codes each enum declares (MIDI 1.0 file format)
DeclaredCodes(e) ==
    CASE e = "Format"              -> {0, 1, 2}
      [] e = "SMPTETimecodeFormat" -> {-24, -25, -29, -30}
      [] e = "VoiceMessage"        -> { 128 + 16 * k : k \in 0..6 }
      [] e = "ModeMessage"         -> 120..127
      [] e = "KeyType"             -> {0, 1}
      [] e = "SharpsOrFlats"       -> -7..7

\* C11: for each backed enum, try_from(v as repr) = Ok(v) for every variant
\* v, and try_from(x) = Err(InvalidValue) for every integer x of the backing
\* type that is not the code of a declared variant; a code that is declared
\* decodes to the variant that casts back to it.
C11_BackedEnumInverse ==
    /\ op = "as repr" => val.value \in DeclaredCodes(val.enum)
    /\ op = "try_from(as repr)" => res = Ok(val.variant)
    /\ op = "try_from" =>
          IF val.value \in DeclaredCodes(val.enum)
          THEN /\ res.kind = "Ok"
               /\ res.val \in EnumVariants(val.enum)
               /\ Enum_as(val.enum, res.val) = val.value
          ELSE res = Err("InvalidValue")

\* SharpsOrFlats::SevenFlats was cast to -7 and decoded back.
C11_Witness ==
    /\ op = "try_from(as repr)"
    /\ val = [enum |-> "SharpsOrFlats", variant |-> "SevenFlats", value |-> -7]
    /\ res = Ok("SevenFlats")

(***************************************************************************)
(* src/chunk/track/chunk.rs: the event model.  Every event is one record   *)
(* shape: kind (Midi voice, Midi mode, Sysex, Meta), name (the variant),   *)
(* and the variant's fields; fields a variant does not have hold a filler. *)
(***************************************************************************)
\* r.map_err(ctor): an Err is wrapped in the caller's error variant
MapErr(r, ctor) ==
    IF r.kind = "Err" THEN Err(ctor \o "(" \o r.err \o ")") ELSE r
\* r.expect(msg): an Err panics
Expect(r, msg) == IF r.kind = "Err" THEN Panic(msg) ELSE r
\* let v = r?; K(v): an Err or a panic of r is the outcome, else K goes on
AndThen(r, K(_)) == IF r.kind = "Ok" THEN K(r.val) ELSE r

\* filler for an event without a length field
NoVlq == [bytes |-> <<0, 0, 0, 0>>, size |-> 0]

MkEvent(kind, name, channel, length, data, sf, kt) ==
    [kind |-> kind, name |-> name, channel |-> channel, length |-> length,
     data |-> data, sharps_or_flats |-> sf, key_type |-> kt]

\* Event::Midi(ChannelMessage::Voice { channel, data }); data lists the U7
\* fields of the VoiceMessageData variant in declaration order
Voice(channel, name, data) == MkEvent("Voice", name, channel, NoVlq, data, "-", "-")
\* Event::Midi(ChannelMessage::Mode(m))
Mode(m) == MkEvent("Mode", m, 0, NoVlq, <<>>, "-", "-")
\* Event::Sysex(SysexMessage { length, bytes })
Sysex(length, bytes) == MkEvent("Sysex", "SysexMessage", 0, length, bytes, "-", "-")
\* Event::Meta(m), m one of the variants with integer or byte fields (a
\* String is its UTF-8 bytes)
Meta(name, data) == MkEvent("Meta", name, 0, NoVlq, data, "-", "-")
\* Event::Meta(MetaMessage::KeySignature { sharps_or_flats, key_type })
KeySignature(sf, kt) == MkEvent("Meta", "KeySignature", 0, NoVlq, <<>>, sf, kt)

MTrkEvent(delta_time, event) == [delta_time |-> delta_time, event |-> event]
TrackChunk(list) == [events |-> list]

\* A faulty variant: 16 is taken as a channel.
Channel_try_from_OffByOne(value) == IF value < 17 THEN Ok(value) ELSE Err("TooBig")
\* impl TryFrom<u8> for Channel
Channel_try_from(value) == IF value < 16 THEN Ok(value) ELSE Err("TooBig")
\* A faulty variant: every u8 is taken as a U7.
U7_try_from_Unchecked(value) == Ok(value)
\* impl TryFrom<u8> for U7
U7_try_from(value) == IF value <= 127 THEN Ok(value) ELSE Err("Overflow")

\* VoiceMessageData::get_first_nibble
get_first_nibble(name) ==
    LET result == backed_enum_as(VoiceMessage, name) IN
    IF BitAnd(result, 240) = result
    THEN Ok(result)
    ELSE Panic("This should only return the high nibble!")

\* the closure make_first_byte of VoiceMessageData::to_be_bytes
make_first_byte(voice_message, channel) ==
    LET voice_message_byte == backed_enum_as(VoiceMessage, voice_message)
        channel_byte == channel
    IN  IF BitAnd(voice_message_byte, 240) # voice_message_byte
        THEN Panic("VoiceMessage values should only set the high nibble")
        ELSE IF BitAnd(channel_byte, 15) # channel_byte
        THEN Panic("Channel values should only set the low nibble")
        ELSE Ok(voice_message_byte + channel_byte)

\* VoiceMessageData::to_be_bytes: the status byte, then the variant's U7
\* fields (none for ControlChange)
VoiceMessageData_to_be_bytes(name, data, channel) ==
    AndThen(make_first_byte(name, channel),
            LAMBDA first :
              CASE name \in {"NoteOff", "NoteOn", "PolyKeyPressure", "PitchBend"} ->
                       Ok(<<first, data[1], data[2]>>)
                [] name = "ControlChange" -> Ok(<<first>>)
                [] name \in {"ProgramChange", "ChannelPressure"} ->
                       Ok(<<first, data[1]>>))

\* ModeMessage::to_be_bytes(self, channel)
ModeMessage_to_be_bytes(m, channel) ==
    IF channel < 16
    THEN Ok(<<backed_enum_as(VoiceMessage, "ControlChange") + channel,
              backed_enum_as(ModeMessage, m)>>)
    ELSE Panic("assertion failed: channel < 16")

\* impl From<&ChannelMessage> for Vec<u8>
ChannelMessage_to_vec(message) ==
    IF message.kind = "Mode"
    THEN Ok(<<backed_enum_as(ModeMessage, message.name)>>)
    ELSE VoiceMessageData_to_be_bytes(message.name, message.data, message.channel)

\* the text meta messages, each at the index that is its type byte
TextEvents ==
    << "TextEvent", "CopyrightNotice", "SequenceName", "InstrumentName", "Lyric",
       "Marker", "CuePoint" >>
IsTextEvent(name) == \E i \in 1..Len(TextEvents) : TextEvents[i] = name
TextEventType(name) == CHOOSE i \in 1..Len(TextEvents) : TextEvents[i] = name

\* concat_vecs!(vec![type], Vec::<u8>::from(&Vlq::try_from(len as u32).unwrap()), bytes)
\* after debug_assert!(u32::try_from(len).unwrap() <= MAX_REPRESENTABLE)
VlqFramed(type, bytes, dbg) ==
    LET length == Vlq_try_from(U32Of(Len(bytes))) IN
    IF dbg /\ Len(bytes) > MAX_REPRESENTABLE
    THEN Panic("assertion failed: len <= MAX_REPRESENTABLE")
    ELSE IF length.kind # "Ok"
    THEN Panic("called Result::unwrap() on an Err value")
    ELSE Ok(<<type>> \o Vlq_into_iter(length.val) \o bytes)

\* impl From<&MetaMessage> for Vec<u8>
MetaMessage_to_vec(message, dbg) ==
    LET name == message.name
        data == message.data
    IN  CASE name = "SequenceNumber" -> Ok(<<0, 2>> \o u16_to_be_bytes(data[1]))
          [] IsTextEvent(name) -> VlqFramed(TextEventType(name), data, dbg)
          [] name = "ChannelPrefix" ->
                 IF dbg /\ ~(data[1] < 16)
                 THEN Panic("assertion failed: *ch < 16")
                 ELSE Ok(<<32, 1, data[1]>>)
          [] name = "EndOfTrack" -> Ok(<<47, 0>>)
          [] name = "SetTempo" ->
                 IF dbg /\ ~(data[1] < 16777216)
                 THEN Panic("assertion failed: tempo.0 < (1 << 24)")
                 ELSE Ok(<<81, 3>> \o Tail(u32_to_be_bytes(data[1])))
          [] name = "SMPTEOffset" -> Ok(<<84, 5>> \o data)
          [] name = "TimeSignature" -> Ok(<<88, 4>> \o data)
          [] name = "KeySignature" ->
                 Ok(<<89, 2,
                      i8_as_u8(backed_enum_as(SharpsOrFlats, message.sharps_or_flats)),
                      backed_enum_as(KeyType, message.key_type)>>)
          [] name = "SequencerSpecificEvent" -> VlqFramed(127, data, dbg)

\* impl From<&Event> for Vec<u8>
Event_to_vec(event, dbg) ==
    CASE event.kind \in {"Voice", "Mode"} -> ChannelMessage_to_vec(event)
      [] event.kind = "Sysex" ->
             Ok(<<240>> \o Vlq_into_iter(event.length) \o event.data)
      [] event.kind = "Meta" ->
             AndThen(MetaMessage_to_vec(event, dbg), LAMBDA message : Ok(<<255>> \o message))

\* impl From<&MTrkEvent> for Vec<u8>
MTrkEvent_to_vec(mtrk_event, dbg) ==
    AndThen(Event_to_vec(mtrk_event.event, dbg),
            LAMBDA event : Ok(Vlq_into_iter(mtrk_event.delta_time) \o event))

\* impl From<&EventsList> for Vec<u8>:
\* for e in &list.0 { result.extend(Vec::<u8>::from(e)); }
RECURSIVE EventsList_to_vec_loop(_, _, _)
EventsList_to_vec_loop(list, result, dbg) ==
    IF list = <<>>
    THEN Ok(result)
    ELSE AndThen(MTrkEvent_to_vec(Head(list), dbg),
                 LAMBDA e : EventsList_to_vec_loop(Tail(list), result \o e, dbg))

EventsList_to_vec(list, dbg) == EventsList_to_vec_loop(list, <<>>, dbg)

(***************************************************************************)
(* usize.  A length that may exceed 32 bits is held as the bits above the  *)
(* low 32 (top) and the two 16-bit halves of the low 32.                   *)
(***************************************************************************)
UsizeOf(i) == [top |-> 0, hi |-> i \div 65536, lo |-> i % 65536]
\* len as u32: the bits above the low 32 are dropped
usize_as_u32(len) == [hi |-> len.hi, lo |-> len.lo]
\* n.to_be_bytes(), for a u32 n
u32_halves_to_be_bytes(n) == u16_to_be_bytes(n.hi) \o u16_to_be_bytes(n.lo)

\* the first two arguments of concat_vecs! in impl From<&Chunk> for Vec<u8>:
\* the tag and (payload_bytes.len() as u32).to_be_bytes()
Track_Chunk_envelope(len) ==
    ChunkType_to_vec("Track") \o u32_halves_to_be_bytes(usize_as_u32(len))

\* impl From<&Chunk> for Vec<u8> (track chunk)
Track_Chunk_to_vec(chunk, dbg) ==
    AndThen(EventsList_to_vec(chunk.events, dbg),
            LAMBDA payload_bytes :
              Ok(Track_Chunk_envelope(UsizeOf(Len(payload_bytes))) \o payload_bytes))

(***************************************************************************)
(* src/chunk/track/chunk.rs: the decoders (trait Parse).  A successful     *)
(* parse returns the value and the remainder of the input.                 *)
(***************************************************************************)
\* String::from_utf8(bytes).is_ok(): well-formed UTF-8 (no overlong forms,
\* no surrogates, nothing above U+10FFFF).  Every byte that is not a
\* continuation byte (80..BF) is a legal lead byte, followed by exactly the
\* continuation bytes its sequence needs, the first of them in the range the
\* lead byte allows.
is_utf8(bytes) ==
    LET n == Len(bytes)
        Cont(i) == i <= n /\ bytes[i] \in 128..191
        In(i, lo, hi) == i <= n /\ bytes[i] \in lo..hi
        Ends(i) == ~Cont(i + 1)
        Sequence(i) ==
            LET b == bytes[i] IN
            IF b < 128 THEN Ends(i)
            ELSE IF b \in 194..223 THEN Cont(i + 1) /\ Ends(i + 1)
            ELSE IF b = 224 THEN In(i + 1, 160, 191) /\ Cont(i + 2) /\ Ends(i + 2)
            ELSE IF b = 237 THEN In(i + 1, 128, 159) /\ Cont(i + 2) /\ Ends(i + 2)
            ELSE IF b \in 225..239 THEN Cont(i + 1) /\ Cont(i + 2) /\ Ends(i + 2)
            ELSE IF b = 240
            THEN In(i + 1, 144, 191) /\ Cont(i + 2) /\ Cont(i + 3) /\ Ends(i + 3)
            ELSE IF b \in 241..243
            THEN Cont(i + 1) /\ Cont(i + 2) /\ Cont(i + 3) /\ Ends(i + 3)
            ELSE IF b = 244
            THEN In(i + 1, 128, 143) /\ Cont(i + 2) /\ Cont(i + 3) /\ Ends(i + 3)
            ELSE FALSE
    IN  /\ ~Cont(1)
        /\ \A i \in 1..n : ~Cont(i) => Sequence(i)

\* the closure get_byte_at of VoiceMessageData::parse
get_byte_at(bytes, index) ==
    IF index < Len(bytes) THEN Ok(bytes[index + 1]) ELSE Err("NotEnoughBytes")

\* the closure u7_from_byte_at of VoiceMessageData::parse
u7_from_byte_at(bytes, index, error_constructor) ==
    AndThen(get_byte_at(bytes, index),
            LAMBDA byte : MapErr(U7_try_from(byte), error_constructor))

\* an arm of VoiceMessageData::parse with two U7 fields: the fields are
\* read in order, each with ?, and the remainder is &bytes[3..]
TwoFields(bytes, name, error1, error2) ==
    AndThen(u7_from_byte_at(bytes, 1, error1), LAMBDA f1 :
    AndThen(u7_from_byte_at(bytes, 2, error2), LAMBDA f2 :
        Ok([name |-> name, data |-> <<f1, f2>>,
            remainder |-> Slice(bytes, 3, Len(bytes))])))

\* an arm of VoiceMessageData::parse with one U7 field; remainder &bytes[2..]
OneField(bytes, name, error1) ==
    AndThen(u7_from_byte_at(bytes, 1, error1), LAMBDA f1 :
        Ok([name |-> name, data |-> <<f1>>,
            remainder |-> Slice(bytes, 2, Len(bytes))]))

\* impl Parse for VoiceMessageData
VoiceMessageData_parse(bytes) ==
    AndThen(get_byte_at(bytes, 0), LAMBDA first :
         LET x == BitAnd(first, 240) IN
         CASE x = backed_enum_as(VoiceMessage, "NoteOff") ->
                  TwoFields(bytes, "NoteOff", "NoteNumber", "Velocity")
           [] x = backed_enum_as(VoiceMessage, "NoteOn") ->
                  TwoFields(bytes, "NoteOn", "NoteNumber", "Velocity")
           [] x = backed_enum_as(VoiceMessage, "PolyKeyPressure") ->
                  TwoFields(bytes, "PolyKeyPressure", "NoteNumber", "Pressure")
           [] x = backed_enum_as(VoiceMessage, "ControlChange") ->
                  Panic("not yet implemented: VoiceMessage::ControlChange")
           [] x = backed_enum_as(VoiceMessage, "ProgramChange") ->
                  OneField(bytes, "ProgramChange", "ProgramNumber")
           [] x = backed_enum_as(VoiceMessage, "ChannelPressure") ->
                  OneField(bytes, "ChannelPressure", "Pressure")
           [] x = backed_enum_as(VoiceMessage, "PitchBend") ->
                  TwoFields(bytes, "PitchBend", "PitchBend", "PitchBend")
           [] OTHER -> Err("MessageType"))

\* A faulty variant: the mode byte is not consumed.
ModeMessage_parse_ConsumesNothing(bytes) ==
    IF bytes = <<>>
    THEN Err("NotEnoughBytes")
    ELSE AndThen(ModeMessage_try_from(bytes[1]), LAMBDA message :
             Ok([message |-> message, remainder |-> bytes]))

\* impl Parse for ModeMessage
ModeMessage_parse(bytes) ==
    IF bytes = <<>>
    THEN Err("NotEnoughBytes")
    ELSE AndThen(ModeMessage_try_from(bytes[1]), LAMBDA message :
             Ok([message |-> message, remainder |-> Tail(bytes)]))

\* the closure extract_text_event of MetaMessage::parse (also the
\* SequencerSpecificEvent arm, without the UTF-8 check): the length is the
\* single byte bytes[1]
extract_text_event(bytes, ctor, is_text) ==
    LET len == bytes[2] IN
    IF Len(bytes) < 2 + len
    THEN Err("NotEnoughBytes")
    ELSE IF is_text /\ ~is_utf8(Slice(bytes, 2, 2 + len))
    THEN Err("TextIsNotUtf8")
    ELSE Ok([event |-> Meta(ctor, Slice(bytes, 2, 2 + len)),
             remainder |-> Slice(bytes, 2 + len, Len(bytes))])

\* an arm of MetaMessage::parse with a fixed number of data bytes
FixedFields(bytes, name, size) ==
    IF Len(bytes) < size
    THEN Err("NotEnoughBytes")
    ELSE Ok([event |-> Meta(name, Slice(bytes, 2, size)),
             remainder |-> Slice(bytes, size, Len(bytes))])

\* impl Parse for MetaMessage (bytes starts after the 0xFF status byte)
MetaMessage_parse(bytes) ==
    IF Len(bytes) < 2
    THEN Err("NotEnoughBytes")
    ELSE LET b0 == bytes[1]
             b1 == bytes[2]
         IN
         IF b0 = 0 /\ b1 = 2
         THEN IF Len(bytes) < 4
              THEN Err("NotEnoughBytes")
              ELSE Ok([event |-> Meta("SequenceNumber",
                                      <<u16_from_be_bytes(bytes[3], bytes[4])>>),
                       remainder |-> Slice(bytes, 4, Len(bytes))])
         ELSE IF b0 \in 1..7
         THEN extract_text_event(bytes, TextEvents[b0], TRUE)
         ELSE IF b0 = 32 /\ b1 = 1
         THEN FixedFields(bytes, "ChannelPrefix", 3)
         ELSE IF b0 = 47 /\ b1 = 0
         THEN Ok([event |-> Meta("EndOfTrack", <<>>),
                  remainder |-> Slice(bytes, 2, Len(bytes))])
         ELSE IF b0 = 81 /\ b1 = 3
         THEN IF Len(bytes) < 5
              THEN Err("NotEnoughBytes")
              ELSE Ok([event |-> Meta("SetTempo",
                                      <<bytes[3] * 65536 + bytes[4] * 256 + bytes[5]>>),
                       remainder |-> Slice(bytes, 5, Len(bytes))])
         ELSE IF b0 = 84 /\ b1 = 5
         THEN FixedFields(bytes, "SMPTEOffset", 7)
         ELSE IF b0 = 88 /\ b1 = 4
         THEN FixedFields(bytes, "TimeSignature", 6)
         ELSE IF b0 = 89 /\ b1 = 2
         THEN IF Len(bytes) < 4
              THEN Err("NotEnoughBytes")
              ELSE AndThen(MapErr(SharpsOrFlats_try_from(u8_as_i8(bytes[3])),
                                  "SharpsOrFlats"), LAMBDA sharps_or_flats :
                   AndThen(MapErr(KeyType_try_from(bytes[4]), "KeyType"),
                           LAMBDA key_type :
                       Ok([event |-> KeySignature(sharps_or_flats, key_type),
                           remainder |-> Slice(bytes, 4, Len(bytes))])))
         ELSE IF b0 = 127
         THEN extract_text_event(bytes, "SequencerSpecificEvent", FALSE)
         ELSE Err("Unrecognized([" \o ToString(b0) \o ", " \o ToString(b1) \o "])")

\* the voice arm of Event::parse, after VoiceMessage::try_from succeeded
VoiceEvent(bytes, message) ==
    AndThen(Expect(Channel_try_from(BitAnd(bytes[1], 15)),
                   "We just did a bitwise operation that guarantees a u8 < 16"),
            LAMBDA channel :
    AndThen(MapErr(VoiceMessageData_parse(bytes), "VoiceMessageData"), LAMBDA d :
        IF get_first_nibble(d.name) # Ok(backed_enum_as(VoiceMessage, message))
        THEN Panic("We're really using VoiceMessage::try_from() as a marker check")
        ELSE Ok([event |-> Voice(channel, d.name, d.data),
                 remainder |-> d.remainder])))

\* impl Parse for Event
Event_parse(bytes) ==
    IF bytes = <<>>
    THEN Err("NotEnoughBytes")
    ELSE IF bytes[1] = 240
    THEN Panic("not yet implemented")
    ELSE IF bytes[1] = 247
    THEN Panic("not yet implemented")
    ELSE IF bytes[1] = 255
    THEN MapErr(MetaMessage_parse(Tail(bytes)), "MetaMessage")
    ELSE LET message == VoiceMessage_try_from(BitAnd(bytes[1], 240)) IN
         IF message.kind = "Ok"
         THEN VoiceEvent(bytes, message.val)
         ELSE AndThen(MapErr(ModeMessage_parse(bytes), "ModeMessage"), LAMBDA m :
                  Ok([event |-> Mode(m.message), remainder |-> m.remainder]))

\* impl Parse for MTrkEvent
MTrkEvent_parse(bytes) ==
    IF Len(bytes) < 4
    THEN Err("NotEnoughBytes")
    ELSE AndThen(MapErr(Vlq_parse(bytes), "DeltaTime"), LAMBDA dt :
         AndThen(MapErr(Event_parse(dt.remainder), "Event"), LAMBDA e :
             Ok([event |-> MTrkEvent(dt.vlq, e.event), remainder |-> e.remainder])))

\* A faulty variant: the loop is given every byte after the envelope header,
\* not only the declared payload.
Track_Chunk_parse_envelope_WholeBuffer(value) ==
    IF Len(value) < 10
    THEN Err("NotEnoughBytes")
    ELSE IF Slice(value, 0, 4) # ChunkType_to_vec("Track")
    THEN Err("ChunkType")
    ELSE LET chunk_length == [hi |-> u16_from_be_bytes(value[5], value[6]),
                              lo |-> u16_from_be_bytes(value[7], value[8])]
         IN  IF U32Gt(chunk_length, Len(value) - 8)
             THEN Err("NotEnoughBytes")
             ELSE Ok([chunk_length |-> U32Int(chunk_length),
                      payload |-> Slice(value, 8, Len(value)),
                      rest |-> Slice(value, 8 + U32Int(chunk_length), Len(value))])

\* impl Parse for Chunk, up to the loop: the length and tag checks, and the
\* declared length against what the buffer holds.  Ok carries the payload
\* slice &value[8..8 + chunk_length] and the rest &value[8 + chunk_length..].
Track_Chunk_parse_envelope(value) ==
    IF Len(value) < 10
    THEN Err("NotEnoughBytes")
    ELSE IF Slice(value, 0, 4) # ChunkType_to_vec("Track")
    THEN Err("ChunkType")
    ELSE LET chunk_length == [hi |-> u16_from_be_bytes(value[5], value[6]),
                              lo |-> u16_from_be_bytes(value[7], value[8])]
         IN  IF U32Gt(chunk_length, Len(value) - 8)
             THEN Err("NotEnoughBytes")
             ELSE Ok([chunk_length |-> U32Int(chunk_length),
                      payload |-> Slice(value, 8, 8 + U32Int(chunk_length)),
                      rest |-> Slice(value, 8 + U32Int(chunk_length), Len(value))])

(***************************************************************************)
(* Inputs of the track codec.                                              *)
(***************************************************************************)
\* Longest list of events in an encoded chunk.
MaxEvents == 2
\* Longest text (in bytes) of a text meta message.
MaxTextLen == 2

VlqOf(i) == Vlq_try_from(U32Of(i)).val

U7Samples == {0, 127}
\* a Channel is only made by Channel::try_from (its field is private): the
\* channels are what it returns for the sampled bytes
ChannelByteSamples == {0, 15, 16, 255}
ChannelSamples ==
    { Channel_try_from(c).val :
        c \in { b \in ChannelByteSamples : Channel_try_from(b).kind = "Ok" } }
DeltaTimeSamples == { VlqOf(i) : i \in {0, 127, 128, MAX_REPRESENTABLE} }

VoiceSamples ==
    { Voice(c, n, <<a, b>>) :
        c \in ChannelSamples,
        n \in {"NoteOff", "NoteOn", "PolyKeyPressure", "PitchBend"},
        a \in U7Samples, b \in U7Samples }
    \cup { Voice(c, n, <<a>>) :
        c \in ChannelSamples, n \in {"ProgramChange", "ChannelPressure"},
        a \in U7Samples }
    \cup { Voice(c, "ControlChange", <<>>) : c \in ChannelSamples }

ModeSamples == { Mode(m) : m \in VariantNames(ModeMessage) }

\* as built by the Arbitrary impl: length = bytes.len()
SysexSamples == { Sysex(VlqOf(Len(b)), b) : b \in {<<>>, <<65>>, <<65, 247>>} }

\* valid UTF-8 of at most MaxTextLen bytes: "A", "é" (C3 A9) and their runs
TextSamples == { s \in SeqsUpTo({65, 195, 169}, MaxTextLen) : is_utf8(s) }

MetaSamples ==
    { Meta("SequenceNumber", <<n>>) : n \in {0, 258, 65535} }
    \cup { Meta(TextEvents[i], s) : i \in 1..Len(TextEvents), s \in TextSamples }
    \cup { Meta("ChannelPrefix", <<ch>>) : ch \in {0, 15, 16, 255} }
    \cup { Meta("EndOfTrack", <<>>) }
    \cup { Meta("SetTempo", <<t>>) : t \in {0, 500000, 16777215} }
    \cup { Meta("SMPTEOffset", [i \in 1..5 |-> b]) : b \in {0, 255} }
    \cup { Meta("TimeSignature", s) : s \in {<<4, 2, 24, 8>>, <<255, 255, 255, 255>>} }
    \cup { KeySignature(sf, kt) :
             sf \in VariantNames(SharpsOrFlats), kt \in VariantNames(KeyType) }
    \cup { Meta("SequencerSpecificEvent", b) : b \in {<<>>, <<0>>, <<255, 128>>} }

EventSamples == VoiceSamples \cup ModeSamples \cup SysexSamples \cup MetaSamples

\* Length of the long payloads: the first length whose VLQ has two bytes.
LongTextLen == 128
\* variable-length meta messages whose length needs a multi-byte VLQ
LongMetaSamples ==
    { Meta(n, [i \in 1..len |-> 65]) :
        n \in {"TextEvent", "CuePoint", "SequencerSpecificEvent"},
        len \in {LongTextLen - 1, LongTextLen, LongTextLen + 1} }

MTrkEventSamples ==
    { MTrkEvent(d, e) : d \in DeltaTimeSamples, e \in EventSamples }

\* the events that come before the last one of a sampled list
LeadSamples ==
    { MTrkEvent(VlqOf(0), Voice(0, "NoteOn", <<0, 127>>)),
      MTrkEvent(VlqOf(128), Mode("Poly")),
      MTrkEvent(VlqOf(0), Meta("TextEvent", <<65>>)) }

TrackChunkSamples ==
    { TrackChunk(<<>>) }
    \cup { TrackChunk(Append(lead, last)) :
             lead \in SeqsUpTo(LeadSamples, MaxEvents - 1),
             last \in MTrkEventSamples }

\* payload lengths that do not fit in 32 bits
OversizeLens ==
    { [top |-> t, hi |-> h, lo |-> l] :
        t \in 1..(1 + EdgeWidth), h \in {0, 1, 65535}, l \in {0, 1, 65535} }

\* raw event bytes: a status byte and up to two data bytes
StatusByteSamples ==
    {0, 119, 120, 127, 128, 143, 144, 160, 176, 191, 192, 208, 224, 239, 240, 241,
     247, 254, 255}
EventBuffers ==
    { <<>> } \cup
    { <<s>> \o d : s \in StatusByteSamples, d \in SeqsUpTo({0, 120, 127, 128, 255}, 2) }

\* raw delta-time bytes, canonical or not (80 00 and 80 80 80 00 are zero
\* with leading zero groups; the fourth byte's top bit is not a continuation)
RawDeltaTimes ==
    { <<0>>, <<129, 0>>, <<128, 0>>, <<128, 128, 128, 0>>, <<255, 255, 255, 255>> }

\* every prefix of s, s included
RECURSIVE Prefixes(_)
Prefixes(s) == IF s = <<>> THEN {<<>>} ELSE {s} \cup Prefixes(SubSeq(s, 1, Len(s) - 1))

\* the bytes of the sampled events that a release build encodes
EncodedMTrkEvents ==
    { r.val : r \in { q \in { MTrkEvent_to_vec(e, FALSE) : e \in MTrkEventSamples } :
                         q.kind = "Ok" } }

RawPayloads ==
    UNION { Prefixes(b) : b \in EncodedMTrkEvents }
    \cup { d \o e \o t :
             d \in RawDeltaTimes, e \in EventBuffers,
             t \in {<<>>, <<0, 255, 47, 0>>} }

\* a track chunk envelope around a payload, declaring the length it has
Enveloped(payload) == Track_Chunk_envelope(UsizeOf(Len(payload))) \o payload

\* buffers whose envelope is damaged: short, wrongly tagged, declaring more
\* or less than they hold, or followed by more bytes
EnvelopeSamples ==
    LET p == <<0, 255, 47, 0>>
        ok == Enveloped(p)
    IN  Prefixes(ok) \cup Prefixes(Enveloped(<<>>) \o <<0>>)
        \cup { MThd \o SubSeq(b, 5, Len(b)) : b \in Prefixes(ok) \cup Prefixes(Enveloped(<<>>) \o <<0>>) }
        \cup { Track_Chunk_envelope(l) \o p :
                 l \in { UsizeOf(i) : i \in 0..5 }
                       \cup { [top |-> 0, hi |-> h, lo |-> 4] : h \in {1, 32768, 65535} } }
        \cup { ok \o t : t \in {<<0>>, <<77, 84, 114, 107>>} }
        \cup { Enveloped(p \o <<0, 144, 0, 127>>) \o p }

TrackBuffers == { Enveloped(p) : p \in RawPayloads } \cup EnvelopeSamples

(***************************************************************************)
(* The caller of the track codec.  Chunk::parse is followed through its    *)
(* loop: one action enters it, one runs the loop body once, one returns.   *)
(***************************************************************************)
\* Chunk::new(events)
TrackNew ==
    /\ op = "init"
    /\ \E c \in TrackChunkSamples :
           /\ op' = "Chunk::new"
           /\ val' = c
           /\ UNCHANGED <<buf, suffix, res, debug_assertions, decoder>>

\* Vec::<u8>::from(&chunk)
TrackToVec ==
    /\ op = "Chunk::new"
    /\ op' = "Vec::from(&Chunk)"
    /\ res' = Track_Chunk_to_vec(val, debug_assertions)
    /\ buf' = IF res'.kind = "Ok" THEN res'.val ELSE <<>>
    /\ UNCHANGED <<val, suffix, debug_assertions, decoder>>

\* Vec::<u8>::from(&chunk) for a chunk whose payload has payload_len bytes,
\* more than a u32 holds; buf is the first 8 bytes of the vector returned
TrackToVecOversize ==
    /\ op = "init"
    /\ \E len \in OversizeLens :
           /\ op' = "Vec::from(&Chunk), oversize"
           /\ val' = [payload_len |-> len]
           /\ buf' = Track_Chunk_envelope(len)
           /\ res' = Ok([length_field |-> usize_as_u32(len), payload_len |-> len])
           /\ UNCHANGED <<suffix, debug_assertions, decoder>>

\* a buffer is handed in
TrackLoad ==
    /\ op = "init"
    /\ \E b \in TrackBuffers :
           /\ op' = "buffer"
           /\ val' = NoResult
           /\ buf' = b
           /\ UNCHANGED <<suffix, res, debug_assertions, decoder>>

\* Chunk::parse(&buf), up to the loop
TrackParseEnter ==
    /\ \/ op = "buffer"
       \/ op = "Vec::from(&Chunk)" /\ res.kind = "Ok"
    /\ LET envelope == Track_Chunk_parse_envelope(buf) IN
         /\ res' = envelope
         /\ IF envelope.kind = "Ok"
            THEN /\ op' = "Chunk::parse loop"
                 /\ events' = <<>>
                 /\ unparsed' = envelope.val.payload
                 /\ iterations' = 0
            ELSE /\ op' = "Chunk::parse"
                 /\ UNCHANGED decoder
    /\ UNCHANGED <<val, buf, suffix, debug_assertions>>

\* what the loop body does with r = MTrkEvent::parse(remainder): an Ok is
\* pushed, an Err returns ChunkError::MTrkEventError, a panic unwinds
LoopBody(r) ==
    CASE r.kind = "Ok" ->
             /\ events' = Append(events, r.val.event)
             /\ unparsed' = r.val.remainder
             /\ UNCHANGED <<op, res>>
      [] r.kind = "Err" ->
             /\ op' = "Chunk::parse"
             /\ res' = MapErr(r, "MTrkEventError")
             /\ UNCHANGED <<events, unparsed>>
      [] r.kind = "Panic" ->
             /\ op' = "Chunk::parse"
             /\ res' = r
             /\ UNCHANGED <<events, unparsed>>

\* the loop body: (event, remainder) = MTrkEvent::parse(remainder)?;
\*                events.0.push(event);
TrackParseEvent ==
    /\ op = "Chunk::parse loop"
    /\ unparsed # <<>>
    /\ iterations' = iterations + 1
    /\ LoopBody(MTrkEvent_parse(unparsed))
    /\ UNCHANGED <<val, buf, suffix, debug_assertions>>

\* the loop is left: Ok((Chunk { events }, &value[8 + chunk_length..]))
TrackParseReturn ==
    /\ op = "Chunk::parse loop"
    /\ unparsed = <<>>
    /\ op' = "Chunk::parse"
    /\ res' = Ok([chunk |-> TrackChunk(events), remainder |-> res.val.rest])
    /\ UNCHANGED <<val, buf, suffix, debug_assertions, decoder>>

\* Vec::<u8>::from(&event)
EventToVec ==
    /\ op = "init"
    /\ \E e \in EventSamples \cup LongMetaSamples :
           /\ op' = "Vec::from(&Event)"
           /\ val' = e
           /\ res' = Event_to_vec(e, debug_assertions)
           /\ buf' = IF res'.kind = "Ok" THEN res'.val ELSE <<>>
           /\ UNCHANGED <<suffix, debug_assertions, decoder>>

\* Event::parse on the bytes of the event just encoded
EventParseEncoded ==
    /\ op = "Vec::from(&Event)"
    /\ res.kind = "Ok"
    /\ op' = "Event::parse(encoded)"
    /\ res' = Event_parse(buf)
    /\ UNCHANGED <<val, buf, suffix, debug_assertions, decoder>>

\* Event::parse on bytes handed in
EventParse ==
    /\ op = "init"
    /\ \E b \in EventBuffers :
           /\ op' = "Event::parse"
           /\ val' = NoResult
           /\ buf' = b
           /\ res' = Event_parse(b)
           /\ UNCHANGED <<suffix, debug_assertions, decoder>>

NextTrack ==
    \/ TrackNew \/ TrackToVec \/ TrackToVecOversize \/ TrackLoad
    \/ TrackParseEnter \/ TrackParseEvent \/ TrackParseReturn
    \/ EventToVec \/ EventParseEncoded \/ EventParse

SpecTrack == Init /\ [][NextTrack]_vars

(***************************************************************************)
(* Claims about the track chunk codec.                                     *)
(***************************************************************************)
\* the payload the test make_bytes expects: for each event, in order, the
\* bytes of its delta-time followed by the bytes of its event
RECURSIVE make_bytes(_, _)
make_bytes(list, dbg) ==
    IF list = <<>>
    THEN <<>>
    ELSE Vlq_into_iter(Head(list).delta_time)
         \o Event_to_vec(Head(list).event, dbg).val
         \o make_bytes(Tail(list), dbg)

\* u32::from_be_bytes(field) as a u32 in halves, for a 4-byte field
u32_from_be_bytes(field) ==
    [hi |-> u16_from_be_bytes(field[1], field[2]),
     lo |-> u16_from_be_bytes(field[3], field[4])]

\* C12: for every list of events, the encoded track chunk is 'MTrk', then
\* the big-endian u32 payload length, then the payload: the in-order
\* concatenation of each event's delta-time bytes and event bytes; and the
\* length field equals the number of payload bytes that follow.
C12_TrackChunkLayout ==
    /\ (op = "Vec::from(&Chunk)" /\ res.kind = "Ok") =>
          /\ buf = MTrk \o u32_to_be_bytes(Len(make_bytes(val.events, debug_assertions)))
                        \o make_bytes(val.events, debug_assertions)
          /\ u32_from_be_bytes(Slice(buf, 4, 8)) = U32Of(Len(buf) - 8)
    /\ op = "Vec::from(&Chunk), oversize" =>
          /\ Slice(buf, 0, 4) = MTrk
          /\ val.payload_len.top = 0
          /\ u32_from_be_bytes(Slice(buf, 4, 8))
                = [hi |-> val.payload_len.hi, lo |-> val.payload_len.lo]

\* C13: encoding a chunk whose payload length does not fit in 32 bits fails;
\* no vector is returned whose length field is the length modulo 2^32.
C13_OversizePayloadRejected ==
    (op = "Vec::from(&Chunk), oversize" /\ val.payload_len.top > 0) =>
        res.kind # "Ok"

\* every event of the chunk is one its constructors can build and its
\* encoder accepts in every build (ChannelPrefix names a channel below 16)
WellFormed(chunk) ==
    \A i \in 1..Len(chunk.events) :
        chunk.events[i].event.name = "ChannelPrefix" =>
            chunk.events[i].event.data[1] < 16

\* the chunk in the caller's hand was encoded (the buffer was not handed in)
Encoded == val # NoResult

\* C14: for every finite sequence of well-formed events (the empty one and
\* every variant included), Chunk::parse of the encoded chunk returns
\* Ok((chunk', rest)) with chunk' equal to the original and rest empty.
C14_TrackRoundTrip ==
    /\ (op = "Vec::from(&Chunk)" /\ WellFormed(val)) => res.kind = "Ok"
    /\ (op = "Chunk::parse" /\ Encoded /\ WellFormed(val)) =>
          res = Ok([chunk |-> val, remainder |-> <<>>])

\* the bytes of buf that a successful parse consumed
Consumed == SubSeq(buf, 1, Len(buf) - Len(res.val.remainder))

\* C15: whenever Chunk::parse returns Ok((chunk, rest)) on a buffer,
\* re-encoding chunk yields exactly the bytes consumed (the buffer without
\* rest), every delta-time in its original bytes.
C15_ReencodeByteExact ==
    (op = "Chunk::parse" /\ res.kind = "Ok") =>
        Track_Chunk_to_vec(res.val.chunk, debug_assertions) = Ok(Consumed)

\* Chunk::parse has been entered on buf and its envelope checks are done
EnvelopeChecked == op \in {"Chunk::parse", "Chunk::parse loop"}

\* C16: Chunk::parse returns ChunkError::NotEnoughBytes exactly when the
\* buffer holds fewer than 8 bytes or fewer than L bytes after the 8-byte
\* header; it returns ChunkError::ChunkType when the header is there and
\* its tag is not 'MTrk'; a complete envelope with at least L payload
\* bytes (L = 0 in an 8-byte buffer included) is never rejected with the
\* envelope's NotEnoughBytes.
C16_EnvelopeErrors ==
    EnvelopeChecked =>
        IF Len(buf) < 8
        THEN res = Err("NotEnoughBytes")
        ELSE LET tag_ok == Slice(buf, 0, 4) = MTrk
                 enough == ~U32Gt(u32_from_be_bytes(Slice(buf, 4, 8)), Len(buf) - 8)
             IN  /\ (tag_ok /\ ~enough) => res = Err("NotEnoughBytes")
                 /\ ~tag_ok => res = Err("ChunkType")
                 /\ enough => res # Err("NotEnoughBytes")
                 /\ (tag_ok /\ enough) => res # Err("ChunkType")

\* C17: on every byte buffer Chunk::parse returns Ok or a ChunkError; no
\* input makes it panic (todo!, expect, assert, slice out of range).
C17_TrackDecodeNeverPanics ==
    op = "Chunk::parse" => res.kind \in {"Ok", "Err"}

\* the loop of Chunk::parse was entered (the envelope checks passed)
LoopEntered ==
    \/ op = "Chunk::parse loop"
    \/ op = "Chunk::parse" /\ res \notin {Err("NotEnoughBytes"), Err("ChunkType")}

\* a successful r = MTrkEvent::parse(bytes) left a remainder at least two
\* bytes shorter than bytes (one for the delta-time, one for the event)
Shrinks(bytes, r) == r.kind = "Ok" => Len(r.val.remainder) + 2 <= Len(bytes)

\* C18: track decode terminates: each successful MTrkEvent::parse returns
\* a remainder strictly shorter than its input (at least one byte for the
\* delta-time and one for the event), a failed sub-parse ends the loop at
\* once, and the loop body runs at most as many times as the declared
\* payload length.
C18_DecodeLoopBounded ==
    LoopEntered =>
        LET chunk_length == U32Int(u32_from_be_bytes(Slice(buf, 4, 8))) IN
        /\ iterations <= chunk_length
        /\ Len(unparsed) + 2 * Len(events) <= chunk_length
        /\ Shrinks(unparsed, MTrkEvent_parse(unparsed))
        /\ op = "Chunk::parse loop" => iterations = Len(events)
        /\ op = "Chunk::parse" =>
              IF res.kind = "Ok"
              THEN iterations = Len(events) /\ unparsed = <<>>
              ELSE iterations = Len(events) + 1

\* The first event of a two-event payload was parsed, the second pass
\* failed, and the loop was left with that error.
C18_Witness ==
    /\ op = "Chunk::parse"
    /\ iterations = 2
    /\ Len(events) = 1
    /\ unparsed # <<>>
    /\ res.kind = "Err"

\* C19: every encoded channel voice event (all seven kinds) is one status
\* byte in 0x80..0xEF, equal to (kind code | channel), followed by 1 or 2
\* data bytes, each at most 0x7F.
C19_VoiceEventLayout ==
    (op = "Vec::from(&Event)" /\ val.kind = "Voice") =>
        /\ res.kind = "Ok"
        /\ buf[1] \in 128..239
        /\ buf[1] = backed_enum_as(VoiceMessage, val.name) + val.channel
        /\ Len(buf) \in {2, 3}
        /\ \A i \in 2..Len(buf) : buf[i] <= 127

\* C20: every encoded channel mode event is two bytes, the ControlChange
\* status byte 0xBn and the mode code in 120..127; and decoding yields a
\* mode message only from bytes of that form.
C20_ModeEventLayout ==
    /\ (op = "Vec::from(&Event)" /\ val.kind = "Mode") =>
          /\ res.kind = "Ok"
          /\ Len(buf) = 2
          /\ buf[1] \in 176..191
          /\ buf[2] = backed_enum_as(ModeMessage, val.name)
          /\ buf[2] \in 120..127
    /\ (op = "Event::parse" /\ res.kind = "Ok" /\ res.val.event.kind = "Mode") =>
          /\ Len(buf) >= 2
          /\ buf[1] \in 176..191
          /\ buf[2] = backed_enum_as(ModeMessage, res.val.event.name)
          /\ res.val.remainder = Slice(buf, 2, Len(buf))


\* the event in the caller's hand is a meta message of variable length
VariableLengthMeta ==
    /\ val.kind = "Meta"
    /\ IsTextEvent(val.name) \/ val.name = "SequencerSpecificEvent"

\* the type byte of a variable-length meta message
MetaType(name) == IF IsTextEvent(name) THEN TextEventType(name) ELSE 127

\* C21: the variable-length meta messages (the seven text variants and
\* SequencerSpecificEvent) are framed 0xFF, type, VLQ length, payload on
\* encode, and for every payload length (lengths of 128 and more, whose VLQ
\* has several bytes, included) decoding the encoded message returns the
\* same message and consumes exactly the encoded bytes.
C21_MetaVlqFraming ==
    /\ (op = "Vec::from(&Event)" /\ VariableLengthMeta) =>
          /\ res.kind = "Ok"
          /\ buf = <<255, MetaType(val.name)>>
                     \o Vlq_into_iter(VlqOf(Len(val.data))) \o val.data
    /\ (op = "Event::parse(encoded)" /\ VariableLengthMeta) =>
          res = Ok([event |-> val, remainder |-> <<>>])


\* a decoded event that is not a ChannelPrefix naming a channel above 15
ChannelPrefixInRange(event) ==
    event.name = "ChannelPrefix" => event.data[1] \in 0..15

\* C22: every MetaMessage::ChannelPrefix that decoding produces holds a
\* channel in 0..15; a ChannelPrefix meta event whose channel byte is 16 or
\* more is rejected with an error.
C22_ChannelPrefixChecked ==
    /\ (op \in {"Event::parse", "Event::parse(encoded)"} /\ res.kind = "Ok") =>
          ChannelPrefixInRange(res.val.event)
    /\ (op = "Chunk::parse" /\ res.kind = "Ok") =>
          \A i \in 1..Len(res.val.chunk.events) :
              ChannelPrefixInRange(res.val.chunk.events[i].event)
    /\ (/\ op \in {"Event::parse", "Event::parse(encoded)"}
        /\ Len(buf) >= 4
        /\ Slice(buf, 0, 3) = <<255, 32, 1>>
        /\ buf[4] >= 16) => res.kind = "Err"


(***************************************************************************)
(* Claims about Vlq::parse on raw bytes (checked under SpecVlqParse).      *)
(***************************************************************************)
\* the positions at which a VLQ that starts bytes can end: the first byte
\* with the top bit clear, or the fourth byte after three with the top bit
\* set (at most one position; none when bytes ends before it)
FinalByteAt(bytes) ==
    { k \in 1..Len(bytes) :
        /\ k <= 4
        /\ bytes[k] < 128 \/ k = 4
        /\ \A j \in 1..(k - 1) : bytes[j] >= 128 }

\* the big-endian concatenation of the low 7 bits of bytes[1..k]
RECURSIVE LowBitsValue(_, _)
LowBitsValue(bytes, k) ==
    IF k = 0 THEN 0 ELSE LowBitsValue(bytes, k - 1) * 128 + (bytes[k] % 128)

\* C23: Vlq::parse consumes the bytes up to and including the first byte
\* whose top bit is clear, or exactly 4 bytes when the first three all have
\* the top bit set (the 4th byte is final whatever its top bit); the value
\* is the big-endian concatenation of the low 7 bits of the consumed bytes,
\* at most 0x0FFFFFFF (never OverMaxSize); it fails with NotEnoughBytes
\* exactly when the buffer ends before such a final byte.
C23_VlqParseRawBytes ==
    op = "Vlq::parse(bytes)" =>
        IF FinalByteAt(buf) = {}
        THEN res = Err("NotEnoughBytes")
        ELSE \A k \in FinalByteAt(buf) :
               /\ res.kind = "Ok"
               /\ res.val.remainder = Slice(buf, k, Len(buf))
               /\ u32_from_Vlq(res.val.vlq) = LowBitsValue(buf, k)
               /\ LowBitsValue(buf, k) <= MAX_REPRESENTABLE

\* Four bytes with the top bit set, then one more: the first four were
\* consumed, the fifth was left, and the value is the largest one.
C23_Witness ==
    /\ op = "Vlq::parse(bytes)"
    /\ buf = <<255, 255, 255, 255, 0>>
    /\ res.kind = "Ok"
    /\ res.val.remainder = <<0>>
    /\ u32_from_Vlq(res.val.vlq) = MAX_REPRESENTABLE


(***************************************************************************)
(* More claims about the track chunk codec (checked under SpecTrack).      *)
(***************************************************************************)
\* s is the end of t
IsSuffix(s, t) ==
    /\ Len(s) <= Len(t)
    /\ s = SubSeq(t, Len(t) - Len(s) + 1, Len(t))

\* C24: whenever Chunk::parse returns Ok((chunk, rest)) on a buffer b that
\* declares the length L, rest is b[8+L..]; every event was decoded only
\* from bytes of b[8..8+L] (what the loop still has to read is always an
\* end of the declared payload, also when more bytes follow in b); and the
\* events consumed all L payload bytes: the loop returns only with nothing
\* left of the payload, not at an EndOfTrack event.
C24_DeclaredPayloadOnly ==
    LoopEntered =>
        LET chunk_length == U32Int(u32_from_be_bytes(Slice(buf, 4, 8))) IN
        /\ IsSuffix(unparsed, Slice(buf, 8, 8 + chunk_length))
        /\ (op = "Chunk::parse" /\ res.kind = "Ok") =>
              /\ res.val.remainder = Slice(buf, 8 + chunk_length, Len(buf))
              /\ res.val.chunk.events = events
              /\ unparsed = <<>>

\* A payload of an EndOfTrack event and a NoteOn event, followed in the
\* buffer by four more bytes that read as an event: both events of the
\* payload were decoded, and the four bytes were returned unread.
C24_Witness ==
    /\ op = "Chunk::parse"
    /\ res.kind = "Ok"
    /\ Len(res.val.chunk.events) = 2
    /\ res.val.chunk.events[1].event.name = "EndOfTrack"
    /\ res.val.chunk.events[2].event.name = "NoteOn"
    /\ res.val.remainder = <<0, 255, 47, 0>>


\* bytes begins with a complete delta-time followed by a complete event: the
\* two decoders, one after the other, both succeed
BeginsWithEvent(bytes) ==
    AndThen(Vlq_parse(bytes), LAMBDA dt : Event_parse(dt.remainder)).kind = "Ok"

\* C25: MTrkEvent::parse succeeds on every buffer that begins with a
\* complete delta-time followed by a complete event, whatever the number of
\* bytes; a last event of fewer than 4 bytes at the end of a payload (a
\* one-byte delta-time and a two-byte ProgramChange or ChannelPressure) is
\* decoded, not rejected with NotEnoughBytes.
C25_ShortEventDecoded ==
    (op = "Chunk::parse loop" /\ BeginsWithEvent(unparsed)) =>
        MTrkEvent_parse(unparsed).kind = "Ok"


(***************************************************************************)
(* More claims about the header chunk (checked under SpecHeader).          *)
(***************************************************************************)
\* the checks of the header decoder in the order the file format lists the
\* fields; the first one that fails names the error
FirstFailure(b) ==
    IF Len(b) # 14 THEN "SliceSize"
    ELSE IF SubSeq(b, 1, 4) # MThd THEN "ChunkType"
    ELSE IF SubSeq(b, 5, 8) # <<0, 0, 0, 6>> THEN "ChunkLength"
    ELSE IF b[9] * 256 + b[10] \notin {0, 1, 2} THEN "Format(InvalidValue)"
    ELSE IF b[11] * 256 + b[12] = 0 THEN "NumberOfTracks"
    ELSE LET d == Division_try_from(b[13] * 256 + b[14]) IN
         IF d.kind = "Err" THEN "Division(" \o d.err \o ")" ELSE "none"

\* C26: the header decoder of header/chunk.rs checks, in this order, and
\* reports the first failure: length other than 14 (SliceSize), tag other
\* than 'MThd' (ChunkType), length field other than 00 00 00 06
\* (ChunkLength), illegal format code (Format(InvalidValue)), zero track
\* count (NumberOfTracks), invalid division (Division(e)).  A buffer with
\* several invalid fields yields the error of the earliest one.
C26_HeaderErrorOrder ==
    op = "Chunk::try_from" =>
        IF FirstFailure(buf) = "none"
        THEN res.kind = "Ok"
        ELSE res = Err(FirstFailure(buf))

\* Format code 3, no tracks and a zero division in one buffer: the error is
\* that of the format.
C26_Witness ==
    /\ op = "Chunk::try_from"
    /\ buf = MThd \o <<0, 0, 0, 6, 0, 3, 0, 0, 0, 0>>
    /\ res = Err("Format(InvalidValue)")


\* the voice message a status byte's high nibble selects, and the errors of
\* its data bytes, in order
VoiceKindOf(status) ==
    CASE status \div 16 = 8 -> [name |-> "NoteOff", fields |-> <<"NoteNumber", "Velocity">>]
      [] status \div 16 = 9 -> [name |-> "NoteOn", fields |-> <<"NoteNumber", "Velocity">>]
      [] status \div 16 = 10 ->
             [name |-> "PolyKeyPressure", fields |-> <<"NoteNumber", "Pressure">>]
      [] status \div 16 = 12 -> [name |-> "ProgramChange", fields |-> <<"ProgramNumber">>]
      [] status \div 16 = 13 -> [name |-> "ChannelPressure", fields |-> <<"Pressure">>]
      [] status \div 16 = 14 -> [name |-> "PitchBend", fields |-> <<"PitchBend", "PitchBend">>]

\* the data bytes of bytes, counted from 1, that are missing or above 0x7F
BadDataBytes(bytes, arity) ==
    { i \in 1..arity : Len(bytes) < i + 1 \/ bytes[i + 1] > 127 }

\* the outcome the rule gives for a voice event of the given kind
VoiceOutcome(bytes, kind) ==
    LET bad == BadDataBytes(bytes, Len(kind.fields)) IN
    IF bad = {}
    THEN Ok([event |-> Voice(bytes[1] % 16, kind.name,
                             SubSeq(bytes, 2, 1 + Len(kind.fields))),
             remainder |-> SubSeq(bytes, 2 + Len(kind.fields), Len(bytes))])
    ELSE LET i == CHOOSE i \in bad : \A j \in bad : i <= j IN
         IF Len(bytes) < i + 1
         THEN Err("VoiceMessageData(NotEnoughBytes)")
         ELSE Err("VoiceMessageData(" \o kind.fields[i] \o "(Overflow))")

\* C27: when the status byte's high nibble is a voice-message code, the
\* decoded channel is the status byte's low nibble, the decoded variant is
\* the one the high nibble selects, each data byte is accepted only if it is
\* at most 0x7F (a data byte of 0x80 or more yields the field's error
\* wrapping U7Error::Overflow, a missing one NotEnoughBytes), and the
\* remainder starts right after the last data byte of the kind (2 data
\* bytes for NoteOff, NoteOn, PolyKeyPressure, PitchBend; 1 for
\* ProgramChange, ChannelPressure).
C27_VoiceEventDecode ==
    (op = "Event::parse" /\ buf # <<>>) =>
        /\ buf[1] \div 16 \in {8, 9, 10, 12, 13, 14} =>
              res = VoiceOutcome(buf, VoiceKindOf(buf[1]))
        /\ (buf[1] \div 16 \in 8..14 /\ res.kind = "Ok") =>
              /\ res.val.event.kind = "Voice"
              /\ res.val.event.channel = buf[1] % 16
              /\ backed_enum_as(VoiceMessage, res.val.event.name) = (buf[1] \div 16) * 16
              /\ \A i \in 1..Len(res.val.event.data) : res.val.event.data[i] <= 127
              /\ buf = <<buf[1]>> \o res.val.event.data \o res.val.remainder

\* A ProgramChange on channel 0 followed by one more byte was decoded, and
\* the byte after the data byte is the remainder.
C27_Witness ==
    /\ op = "Event::parse"
    /\ buf = <<192, 127, 255>>
    /\ res = Ok([event |-> Voice(0, "ProgramChange", <<127>>), remainder |-> <<255>>])


\* C28: for every header Chunk (any Format, any nonzero ntrks, any
\* constructible Division) the two header encoders agree:
\* Vec::<u8>::from(chunk) and chunk.into_iter().collect::<Vec<u8>>() are
\* the same 14 bytes.
C28_HeaderEncodersAgree ==
    /\ op = "Vec::from(Chunk)" =>
          /\ res = Ok(Chunk_into_iter(val))
          /\ Len(buf) = 14
    /\ op = "Chunk::into_iter" =>
          /\ Chunk_to_vec(val, debug_assertions) = Ok(buf)
          /\ Len(buf) = 14


\* the messages of the assert! and expect calls of the channel-message code
ChannelMessageAssertions ==
    { "This should only return the high nibble!",
      "VoiceMessage values should only set the high nibble",
      "Channel values should only set the low nibble",
      "We just did a bitwise operation that guarantees a u8 < 16",
      "We're really using VoiceMessage::try_from() as a marker check" }

\* C29: the assertions of the channel-message code never fail for a
\* reachable value: in get_first_nibble and to_be_bytes the voice code has a
\* zero low nibble and the Channel is below 16, so status = code | channel
\* keeps both nibbles; in Event::parse the variant VoiceMessageData::parse
\* returns has the first nibble of the VoiceMessage matched for dispatch.
C29_ChannelAssertionsHold ==
    /\ res.kind = "Panic" => res.msg \notin ChannelMessageAssertions
    /\ (op \in {"Vec::from(&Event)", "Event::parse(encoded)"} /\ val.kind = "Voice") =>
          /\ val.channel < 16
          /\ get_first_nibble(val.name).kind = "Ok"
          /\ get_first_nibble(val.name).val % 16 = 0
          /\ buf # <<>>
          /\ buf[1] \div 16 = get_first_nibble(val.name).val \div 16
          /\ buf[1] % 16 = val.channel
    /\ (/\ op \in {"Event::parse", "Event::parse(encoded)"}
        /\ res.kind = "Ok"
        /\ res.val.event.kind = "Voice") =>
          get_first_nibble(res.val.event.name) = Ok((buf[1] \div 16) * 16)

\* A PitchBend on channel 15 was encoded (status byte 0xEF) and decoded
\* back: every assertion on the way was passed.
C29_Witness ==
    /\ op = "Event::parse(encoded)"
    /\ val = Voice(15, "PitchBend", <<127, 127>>)
    /\ buf = <<239, 127, 127>>
    /\ res = Ok([event |-> val, remainder |-> <<>>])


(***************************************************************************)
(* Claims about the Vlq value (checked under SpecVlqCmp).                  *)
(***************************************************************************)
\* C30: every Vlq that Vlq::try_from produces has size in 1..=4, bytes[0]
\* with its top bit clear, bytes[1..size] with the top bit set and
\* bytes[size..4] all zero; so the derived structural equality agrees with
\* the numeric ordering: for all Vlq a, b, a == b iff a.cmp(&b) == Equal
\* iff a.get() == b.get().
C30_VlqEqualityAgrees ==
    /\ (op = "Vlq::try_from" /\ res.kind = "Ok") =>
          /\ res.val.size \in 1..4
          /\ res.val.bytes[1] < 128
          /\ \A i \in 2..res.val.size : res.val.bytes[i] >= 128
          /\ \A i \in (res.val.size + 1)..4 : res.val.bytes[i] = 0
    /\ op = "Vlq::cmp" =>
          /\ res.eq <=> res.ordering = "Equal"
          /\ res.eq <=> Vlq_get(res.a) = Vlq_get(res.b)

\* 128 as made by Vlq::try_from was compared with 128 as parsed from
\* 80 81 00: equal, both ways.
C30_Witness ==
    /\ op = "Vlq::cmp"
    /\ val = U32Of(128)
    /\ res.b = Vlq_parse(<<128, 129, 0>>).val.vlq
    /\ res.eq
    /\ res.ordering = "Equal"

====
